---- MODULE Spec2Model ----
(***************************************************************************)
(* GeoTrack: the simulation player, the position resolver, the annotation  *)
(* engine and the track                                                    *)
(* metadata of the Sidebar component (src/unnamed/part_000, the current    *)
(* variant of the component; part_001 is an older variant of the same      *)
(* code), with getDistance of src/services/parser.ts.                      *)
(*                                                                         *)
(* Numbers.  JavaScript numbers are modelled as exact rationals            *)
(* [n |-> numerator, d |-> denominator > 0] in lowest terms, so equal      *)
(* values are equal records.  Floating-point rounding is not modelled.     *)
(*                                                                         *)
(* Tracks.  Points lie on the equator (lat = 0) and lon is counted in grid *)
(* steps of one kilometre of arc (180 / (pi * 6371) degrees).  For such    *)
(* points the haversine formula of getDistance gives exactly |lon2 - lon1| *)
(* km and calculateBearing gives exactly 90 (east), 270 (west) or 0 (same  *)
(* point).  Timestamps are milliseconds since the epoch, NoTime when the   *)
(* point carries none.                                                     *)
(*                                                                         *)
(* React.  One action is one event handler (or one animation frame         *)
(* callback) together with the re-render it causes and the effects of      *)
(* that render: the memoised trackMetadata, the animation-loop effect      *)
(* (cleanup, then re-arm), the simulation-position effect and the          *)
(* annotation effect.                                                      *)
(*                                                                         *)
(* Specifications.  Spec: the simulation player.  LiveSpec: the playback   *)
(* of one loaded track, with fair animation frames.  AnnotSpec: the        *)
(* commands that decide the published markers.  ScanSpec: the annotation   *)
(* effect taken one loop iteration at a time, on a loaded track.           *)
(* LoadSpec: loads that succeed and fail during playback with markers.     *)
(* RenderSpec: one render of a given track, the memo first and then one of *)
(* the two effects, for the statistics and the resolved position.          *)
(***************************************************************************)
EXTENDS Integers, Sequences, FiniteSets, TLC

(* ---------------------------- bounds ----------------------------------- *)
MaxPoints == 3
MaxLon == 1
MaxScanPoints == 4
MaxRenderPoints == 3

(* ------------------------- rational numbers ---------------------------- *)
Abs(x) == IF x < 0 THEN -x ELSE x

\* a % b of JavaScript for b > 0: the remainder has the sign of a
JsRem(a, b) == IF a >= 0 THEN a % b ELSE -((-a) % b)

\* functions, so that their arguments are evaluated once
GCD[a \in Nat, b \in Nat] == IF b = 0 THEN a ELSE GCD[b, a % b]

Rat(n, d) ==
    LET Norm[p \in Int, q \in Int] ==
            LET g == GCD[Abs(p), Abs(q)]
                s == IF q < 0 THEN -1 ELSE 1
            IN  [n |-> (s * p) \div g, d |-> (s * q) \div g]
    IN  Norm[n, d]

Zero == Rat(0, 1)
One == Rat(1, 1)
Rats == [n : Int, d : Int]
\* the operations divide by common factors before they multiply, so that the
\* intermediate products stay small
RatAdd(x, y) ==
    LET F[a \in Rats, b \in Rats] ==
            LET g == GCD[a.d, b.d]
            IN  Rat(a.n * (b.d \div g) + b.n * (a.d \div g), (a.d \div g) * b.d)
    IN  F[x, y]
RatSub(x, y) ==
    LET F[a \in Rats, b \in Rats] ==
            LET g == GCD[a.d, b.d]
            IN  Rat(a.n * (b.d \div g) - b.n * (a.d \div g), (a.d \div g) * b.d)
    IN  F[x, y]
RatMul(x, y) ==
    LET F[a \in Rats, b \in Rats] ==
            LET g1 == GCD[Abs(a.n), b.d]
                g2 == GCD[Abs(b.n), a.d]
            IN  Rat((a.n \div g1) * (b.n \div g2), (a.d \div g2) * (b.d \div g1))
    IN  F[x, y]
RatDiv(x, y) ==
    LET F[a \in Rats, b \in Rats] ==
            LET g1 == GCD[Abs(a.n), Abs(b.n)]
                g2 == GCD[a.d, b.d]
            IN  Rat((a.n \div g1) * (b.d \div g2), (a.d \div g2) * (b.n \div g1))
    IN  F[x, y]
RatLeq(x, y) ==
    LET F[a \in Rats, b \in Rats] ==
            LET g == GCD[a.d, b.d]
            IN  a.n * (b.d \div g) <= b.n * (a.d \div g)
    IN  F[x, y]
RatLt(x, y) ==
    LET F[a \in Rats, b \in Rats] ==
            LET g == GCD[a.d, b.d]
            IN  a.n * (b.d \div g) < b.n * (a.d \div g)
    IN  F[x, y]
RatGeq(x, y) == RatLeq(y, x)
RatGt(x, y) == RatLt(y, x)

(* ------------------------------ tracks --------------------------------- *)
NoTime == -1

GridPoints == [lat : {0}, lon : 0..MaxLon, time : {NoTime}]

\* 0-based indexing as in the source
At(seq, i) == seq[i + 1]

\* a distance that keeps the sign of the difference of the longitudes
getDistanceSigned(p1, p2) == Rat(p2.lon - p1.lon, 1)

\* getDistance (haversine, R = 6371) on the equator grid: |dLon| km
getDistance(p1, p2) == Rat(Abs(p2.lon - p1.lon), 1)

\* TrackData.distanceKm is optional: the value of a track that lacks it
NoDistance == [n |-> -1, d |-> 1]

\* calculateDistance of the parser: the sum of the segment lengths
calculateDistance(points) ==
    LET total[i \in 0..Len(points)] ==
            IF i = 0 THEN Zero
            ELSE RatAdd(total[i - 1], getDistance(At(points, i - 1), At(points, i)))
    IN  IF Len(points) < 2 THEN Zero ELSE total[Len(points) - 1]

\* the TrackData every parser returns for the points it found
TrackOf(points) ==
    [present |-> TRUE, points |-> points, distanceKm |-> calculateDistance(points)]

\* a TrackData without the optional distanceKm
TrackWithoutDistance(points) ==
    [present |-> TRUE, points |-> points, distanceKm |-> NoDistance]

NoTrack == [present |-> FALSE, points |-> << >>, distanceKm |-> NoDistance]

\* What a successful parse can deliver: parseGPX, parseKML and parseCSV all
\* fail when no point was found, so a loaded track has at least one point.
\* Longitudes are counted from the first point of the track (the distances and
\* bearings do not change when a track is shifted along the equator).
ParsedTracks ==
    { TrackOf(ps) :
        ps \in { q \in UNION { [1..k -> GridPoints] : k \in 1..MaxPoints } :
                    q[1].lon = 0 } }

\* toDeg(Math.atan2(y, x)) of calculateBearing on the equator grid:
\* y = sin(dLon), x = 0, atan2(y, 0) = +-90 degrees, atan2(0, 0) = 0
atan2Degrees(startLng, destLng) ==
    IF destLng > startLng THEN 90
    ELSE IF destLng < startLng THEN -90
    ELSE 0

\* the bearing as atan2 gives it, in (-180, 180]
calculateBearingOfAtan2(startLat, startLng, destLat, destLng) ==
    atan2Degrees(startLng, destLng)

\* calculateBearing: (brng + 360) % 360
calculateBearing(startLat, startLng, destLat, destLng) ==
    JsRem(atan2Degrees(startLng, destLng) + 360, 360)

\* Recorded tracks for the annotation engine: every point after the first is
\* one step away from its predecessor, along the equator.  A step moves km
\* kilometres while min minutes pass; timed = the point carries a timestamp.
StepKinds ==
    { [km |-> 1, min |-> 1,  timed |-> TRUE],     \* 60 km/h
      [km |-> 2, min |-> 1,  timed |-> TRUE],     \* 120 km/h
      [km |-> 0, min |-> 10, timed |-> TRUE],     \* standing for 10 minutes
      [km |-> 0, min |-> 1,  timed |-> TRUE],     \* standing for 1 minute
      [km |-> 1, min |-> 0,  timed |-> TRUE],     \* same timestamp as before
      [km |-> 1, min |-> 1,  timed |-> FALSE] }   \* no timestamp

\* getTime() of the first fix, milliseconds since the epoch
BaseTimeMs == 60 * 60000

PointsOf(firstTimed, steps) ==
    LET walk[j \in 0..Len(steps)] ==
            IF j = 0 THEN [lon |-> 0, clock |-> BaseTimeMs, timed |-> firstTimed]
            ELSE [lon |-> walk[j - 1].lon + steps[j].km,
                  clock |-> walk[j - 1].clock + steps[j].min * 60000,
                  timed |-> steps[j].timed]
    IN  [k \in 1..(Len(steps) + 1) |->
            [lat |-> 0, lon |-> walk[k - 1].lon,
             time |-> IF walk[k - 1].timed THEN walk[k - 1].clock ELSE NoTime]]

RecordedTracks(maxPoints) ==
    { TrackOf(PointsOf(firstTimed, steps)) :
        firstTimed \in BOOLEAN,
        steps \in UNION { [1..k -> StepKinds] : k \in 0..(maxPoints - 1) } }

Cruise == [km |-> 1, min |-> 1, timed |-> TRUE]

\* a straight 4 km track sampled every kilometre
StraightTrack ==
    TrackOf(PointsOf(TRUE, << Cruise, Cruise, Cruise, Cruise >>))

\* 1 km a minute, except 2 km in the minute from point 2 to point 3
SpeedSpikeTrack ==
    TrackOf(PointsOf(TRUE, << Cruise, Cruise,
                                [km |-> 2, min |-> 1, timed |-> TRUE], Cruise >>))

\* standing for 10 minutes from point 1 to point 2, moving before and after
StopTrack ==
    TrackOf(PointsOf(TRUE, << Cruise, [km |-> 0, min |-> 10, timed |-> TRUE],
                                Cruise >>))


\* Timestamps are the milliseconds new Date(p.time).getTime() gives; a point
\* without a timestamp has time = NoTime.  null numbers are NoTime as well.
HasTime(p) == p.time # NoTime

\* truthiness of a number-or-null: null and 0 are falsy
Truthy(t) == t # NoTime /\ t # 0

(* -------------------------- trackMetadata ------------------------------ *)
\* Elevations are left out (the points of the model carry none), and so is
\* fullDate; totalTime is kept as the pieces of the string.
NoMetadata ==
    [present |-> FALSE, cumulativeDistances |-> << >>, totalDist |-> Zero,
     maxSpeed |-> Zero, avgSpeed |-> Zero, totalTime |-> << "N/A" >>,
     hasTime |-> FALSE]

\* the loop pushing the length of each segment instead of the running sum
CumulativeDistancesPerSegment(points) ==
    [k \in 1..Len(points) |->
        IF k = 1 THEN Zero ELSE getDistance(points[k - 1], points[k])]

\* the prefix sums pushed by the loop: entry i (0-based) is currentDist after
\* point i
CumulativeDistances(points) ==
    LET currentDist[i \in 0..(Len(points) - 1)] ==
            IF i = 0 THEN Zero
            ELSE RatAdd(currentDist[i - 1], getDistance(At(points, i - 1), At(points, i)))
    IN  [k \in 1..Len(points) |-> currentDist[k - 1]]

\* totalTimeMs: endTime - startTime when both are truthy, else 0
totalTimeMs(points) ==
    IF HasTime(At(points, 0)) /\ HasTime(At(points, Len(points) - 1))
    THEN At(points, Len(points) - 1).time - At(points, 0).time
    ELSE 0

\* the update accepting a speed of exactly 1200 km/h
AcceptSpeedInclusive(maxSpeed, speed) ==
    IF RatLeq(speed, Rat(1200, 1)) /\ RatGt(speed, maxSpeed) THEN speed ELSE maxSpeed

\* if (speed < 1200 && speed > maxSpeed) maxSpeed = speed
AcceptSpeed(maxSpeed, speed) ==
    IF RatLt(speed, Rat(1200, 1)) /\ RatGt(speed, maxSpeed) THEN speed ELSE maxSpeed

\* the max-speed part of the loop body, for one i > 0
MaxSpeedStep(maxSpeed, prev, p, hasTime) ==
    IF hasTime /\ HasTime(p) /\ HasTime(prev)
    THEN IF RatGt(Rat(p.time - prev.time, 3600000), Zero)
         THEN AcceptSpeed(maxSpeed,
                          RatDiv(getDistance(prev, p), Rat(p.time - prev.time, 3600000)))
         ELSE maxSpeed
    ELSE maxSpeed

\* maxSpeed after the loop
MaxSpeed(points) ==
    LET maxSpeed[i \in 0..(Len(points) - 1)] ==
            IF i = 0 THEN Zero
            ELSE MaxSpeedStep(maxSpeed[i - 1], At(points, i - 1), At(points, i),
                              \E k \in 1..Len(points) : HasTime(points[k]))
    IN  maxSpeed[Len(points) - 1]

\* avgSpeed = (currentTrack.distanceKm && totalTimeMs > 0) ? ... : 0
avgSpeed(track, totalDist, ms) ==
    IF track.distanceKm # NoDistance /\ track.distanceKm # Zero /\ ms > 0
    THEN RatDiv(track.distanceKm, Rat(ms, 3600000))
    ELSE Zero

\* timeStr
totalTime(points, ms) ==
    IF HasTime(At(points, 0)) /\ HasTime(At(points, Len(points) - 1))
    THEN IF ms \div 3600000 > 0
         THEN << ms \div 3600000, "h ", JsRem(ms, 3600000) \div 60000, "m" >>
         ELSE IF JsRem(ms, 3600000) \div 60000 > 0
         THEN << JsRem(ms, 3600000) \div 60000, "m ",
                 JsRem(JsRem(ms, 3600000), 60000) \div 1000, "s" >>
         ELSE << JsRem(JsRem(ms, 3600000), 60000) \div 1000, "s" >>
    ELSE << "N/A" >>

\* the object the memo returns, given what the loop has pushed and totalTimeMs
MetadataOf(track, cumulativeDistances, ms) ==
    [present |-> TRUE,
     cumulativeDistances |-> cumulativeDistances,
     totalDist |-> cumulativeDistances[Len(cumulativeDistances)],
     maxSpeed |-> MaxSpeed(track.points),
     avgSpeed |-> avgSpeed(track, cumulativeDistances[Len(cumulativeDistances)], ms),
     totalTime |-> totalTime(track.points, ms),
     hasTime |-> \E k \in 1..Len(track.points) : HasTime(track.points[k])]

\* the memo with a guard that also turns a track of one point away
trackMetadataOfSeveralPoints(track) ==
    IF ~track.present \/ Len(track.points) <= 1 THEN NoMetadata
    ELSE MetadataOf(track, CumulativeDistances(track.points), totalTimeMs(track.points))

trackMetadata(track) ==
    IF ~track.present \/ Len(track.points) = 0 THEN NoMetadata
    ELSE MetadataOf(track, CumulativeDistances(track.points), totalTimeMs(track.points))

(* -------------------- simulation position effect ----------------------- *)
NoStatus ==
    [present |-> FALSE, lat |-> Zero, lon |-> Zero, bearing |-> 0,
     time |-> Rat(NoTime, 1), lastIndex |-> 0]

\* the scan with segments that leave their end point out: idx is the first i
\* with dists[i] <= targetDist < dists[i+1], and stays 0 when there is none
FindSegmentHalfOpen(dists, targetDist) ==
    LET scan[i \in 0..Len(dists), target \in Rats] ==
            IF i >= Len(dists) - 1 THEN 0
            ELSE IF /\ RatGeq(target, At(dists, i))
                    /\ RatLt(target, At(dists, i + 1))
                 THEN i
                 ELSE scan[i + 1, target]
    IN  scan[0, targetDist]

\* the scan without its break: the last matching segment wins
FindSegmentNoBreak(dists, targetDist) ==
    LET scan[i \in 0..Len(dists), target \in Rats] ==
            IF i >= Len(dists) - 1 THEN 0
            ELSE LET later == scan[i + 1, target]
                 IN  IF later # 0 THEN later
                     ELSE IF /\ RatGeq(target, At(dists, i))
                             /\ RatLeq(target, At(dists, i + 1))
                          THEN i
                          ELSE 0
    IN  scan[0, targetDist]

\* the "find the segment" loop: idx is the first i < dists.length - 1 with
\* dists[i] <= targetDist <= dists[i+1], and stays 0 when there is none
FindSegment(dists, targetDist) ==
    LET scan[i \in 0..Len(dists), target \in Rats] ==
            IF i >= Len(dists) - 1 THEN 0
            ELSE IF /\ RatGeq(target, At(dists, i))
                    /\ RatLeq(target, At(dists, i + 1))
                 THEN i
                 ELSE scan[i + 1, target]
    IN  scan[0, targetDist]

\* the body of the effect with the position snapped to the start of the segment
ResolveAtSegmentStart(idx, targetDist, dists, track) ==
    LET N == Len(track.points)
        p1 == At(track.points, idx)
    IN  IF idx + 1 >= N
        THEN \* !p2: end of track
             LET last == At(track.points, N - 1)
             IN  [present |-> TRUE,
                  lat |-> Rat(last.lat, 1), lon |-> Rat(last.lon, 1),
                  bearing |-> 0,
                  time |-> Rat(last.time, 1),
                  lastIndex |-> N - 1]
        ELSE
             LET p2 == At(track.points, idx + 1)
                 segmentLength == RatSub(At(dists, idx + 1), At(dists, idx))
                 segmentProgress == Zero
                 lat == RatAdd(Rat(p1.lat, 1),
                               RatMul(Rat(p2.lat - p1.lat, 1), segmentProgress))
                 lon == RatAdd(Rat(p1.lon, 1),
                               RatMul(Rat(p2.lon - p1.lon, 1), segmentProgress))
                 interpolatedTime ==
                     IF p1.time # NoTime /\ p2.time # NoTime
                     THEN RatAdd(Rat(p1.time, 1),
                                 RatMul(Rat(p2.time - p1.time, 1), segmentProgress))
                     ELSE Rat(NoTime, 1)
             IN  [present |-> TRUE,
                  lat |-> lat, lon |-> lon,
                  bearing |-> calculateBearing(p1.lat, p1.lon, p2.lat, p2.lon),
                  time |-> interpolatedTime,
                  lastIndex |-> idx]

\* the body of the effect with the bearing taken from the interpolated position
\* to the end of the segment
ResolveAtBearingFromPosition(idx, targetDist, dists, track) ==
    LET N == Len(track.points)
        p1 == At(track.points, idx)
    IN  IF idx + 1 >= N
        THEN \* !p2: end of track
             LET last == At(track.points, N - 1)
             IN  [present |-> TRUE,
                  lat |-> Rat(last.lat, 1), lon |-> Rat(last.lon, 1),
                  bearing |-> 0,
                  time |-> Rat(last.time, 1),
                  lastIndex |-> N - 1]
        ELSE
             LET p2 == At(track.points, idx + 1)
                 segmentLength == RatSub(At(dists, idx + 1), At(dists, idx))
                 segmentProgress ==
                     IF RatGt(segmentLength, Zero)
                     THEN RatDiv(RatSub(targetDist, At(dists, idx)), segmentLength)
                     ELSE Zero
                 lat == RatAdd(Rat(p1.lat, 1),
                               RatMul(Rat(p2.lat - p1.lat, 1), segmentProgress))
                 lon == RatAdd(Rat(p1.lon, 1),
                               RatMul(Rat(p2.lon - p1.lon, 1), segmentProgress))
                 interpolatedTime ==
                     IF p1.time # NoTime /\ p2.time # NoTime
                     THEN RatAdd(Rat(p1.time, 1),
                                 RatMul(Rat(p2.time - p1.time, 1), segmentProgress))
                     ELSE Rat(NoTime, 1)
             IN  [present |-> TRUE,
                  lat |-> lat, lon |-> lon,
                  bearing |-> IF RatGt(Rat(p2.lon, 1), lon) THEN 90
                              ELSE IF RatGt(lon, Rat(p2.lon, 1)) THEN 270
                              ELSE 0,
                  time |-> interpolatedTime,
                  lastIndex |-> idx]

\* the body of the effect with the time interpolated whenever the start of the
\* segment carries a timestamp
ResolveAtTimeOfStartOnly(idx, targetDist, dists, track) ==
    LET N == Len(track.points)
        p1 == At(track.points, idx)
    IN  IF idx + 1 >= N
        THEN \* !p2: end of track
             LET last == At(track.points, N - 1)
             IN  [present |-> TRUE,
                  lat |-> Rat(last.lat, 1), lon |-> Rat(last.lon, 1),
                  bearing |-> 0,
                  time |-> Rat(last.time, 1),
                  lastIndex |-> N - 1]
        ELSE
             LET p2 == At(track.points, idx + 1)
                 segmentLength == RatSub(At(dists, idx + 1), At(dists, idx))
                 segmentProgress ==
                     IF RatGt(segmentLength, Zero)
                     THEN RatDiv(RatSub(targetDist, At(dists, idx)), segmentLength)
                     ELSE Zero
                 lat == RatAdd(Rat(p1.lat, 1),
                               RatMul(Rat(p2.lat - p1.lat, 1), segmentProgress))
                 lon == RatAdd(Rat(p1.lon, 1),
                               RatMul(Rat(p2.lon - p1.lon, 1), segmentProgress))
                 interpolatedTime ==
                     IF p1.time # NoTime
                     THEN RatAdd(Rat(p1.time, 1),
                                 RatMul(Rat(p2.time - p1.time, 1), segmentProgress))
                     ELSE Rat(NoTime, 1)
             IN  [present |-> TRUE,
                  lat |-> lat, lon |-> lon,
                  bearing |-> calculateBearing(p1.lat, p1.lon, p2.lat, p2.lon),
                  time |-> interpolatedTime,
                  lastIndex |-> idx]

\* the body of the effect after the loop, for the idx the loop found
ResolveAt(idx, targetDist, dists, track) ==
    LET N == Len(track.points)
        p1 == At(track.points, idx)
    IN  IF idx + 1 >= N
        THEN \* !p2: end of track
             LET last == At(track.points, N - 1)
             IN  [present |-> TRUE,
                  lat |-> Rat(last.lat, 1), lon |-> Rat(last.lon, 1),
                  bearing |-> 0,
                  time |-> Rat(last.time, 1),
                  lastIndex |-> N - 1]
        ELSE
             LET p2 == At(track.points, idx + 1)
                 segmentLength == RatSub(At(dists, idx + 1), At(dists, idx))
                 segmentProgress ==
                     IF RatGt(segmentLength, Zero)
                     THEN RatDiv(RatSub(targetDist, At(dists, idx)), segmentLength)
                     ELSE Zero
                 lat == RatAdd(Rat(p1.lat, 1),
                               RatMul(Rat(p2.lat - p1.lat, 1), segmentProgress))
                 lon == RatAdd(Rat(p1.lon, 1),
                               RatMul(Rat(p2.lon - p1.lon, 1), segmentProgress))
                 interpolatedTime ==
                     IF p1.time # NoTime /\ p2.time # NoTime
                     THEN RatAdd(Rat(p1.time, 1),
                                 RatMul(Rat(p2.time - p1.time, 1), segmentProgress))
                     ELSE Rat(NoTime, 1)
             IN  [present |-> TRUE,
                  lat |-> lat, lon |-> lon,
                  bearing |-> calculateBearing(p1.lat, p1.lon, p2.lat, p2.lon),
                  time |-> interpolatedTime,
                  lastIndex |-> idx]

\* the simulation position effect: what it passes to onSimulationUpdate
SimulationStatusOf(progress, meta, track) ==
    IF ~meta.present \/ ~track.present THEN NoStatus
    ELSE LET Found[targetDist \in Rats] ==
                 LET Resolved[idx \in 0..Len(track.points)] ==
                         ResolveAt(idx, targetDist, meta.cumulativeDistances, track)
                 IN  Resolved[FindSegment(meta.cumulativeDistances, targetDist)]
         IN  Found[RatMul(progress, meta.totalDist)]

(* -------------------------- annotation engine -------------------------- *)
NoPoint == [lat |-> 0, lon |-> -1, time |-> NoTime]

\* useState of annotConfig
DefaultAnnotConfig ==
    [time     |-> [enabled |-> FALSE, value |-> 10, unit |-> "min"],
     distance |-> [enabled |-> FALSE, value |-> 1, unit |-> "km"],
     stop     |-> [enabled |-> FALSE, minDuration |-> 5, unit |-> "min"],
     speed    |-> [enabled |-> FALSE, limit |-> 100, unit |-> "kmh"]]

\* 1.60934
MileKm == Rat(160934, 100000)

speedLimitKmh(cfg) ==
    IF cfg.speed.unit = "mph" THEN RatMul(Rat(cfg.speed.limit, 1), MileKm)
    ELSE Rat(cfg.speed.limit, 1)

stopMinDurationMs(cfg) ==
    (IF cfg.stop.unit = "min" THEN cfg.stop.minDuration * 60
     ELSE cfg.stop.minDuration) * 1000

distIntervalKm(cfg) ==
    IF cfg.distance.unit = "km" THEN Rat(cfg.distance.value, 1)
    ELSE IF cfg.distance.unit = "mi" THEN RatMul(Rat(cfg.distance.value, 1), MileKm)
    ELSE Rat(cfg.distance.value, 1000)

timeIntervalMs(cfg) ==
    (IF cfg.time.unit = "hr" THEN cfg.time.value * 60 ELSE cfg.time.value) * 60 * 1000

\* Number.prototype.toFixed(digits) of a finite number: the integer n for which
\* n / 10^digits is nearest to x (the larger n on a tie, on the magnitude),
\* kept with the number of digits it is printed with
ToFixed(x, digits) ==
    LET Nearest(s) == (2 * Abs(s.n) + s.d) \div (2 * s.d)
        Fixed(s) == [digits |-> digits,
                     scaled |-> IF s.n < 0 THEN -Nearest(s) ELSE Nearest(s)]
    IN  Fixed(RatMul(x, Rat(IF digits = 0 THEN 1 ELSE IF digits = 1 THEN 10 ELSE 100, 1)))

\* x / y of JavaScript for x >= 0: a zero divisor gives Infinity
\* ([n |-> 1, d |-> 0]) or, for 0 / 0, NaN ([n |-> 0, d |-> 0])
JsDiv(x, y) ==
    IF y.n = 0 THEN [n |-> IF x.n > 0 THEN 1 ELSE 0, d |-> 0]
    ELSE RatDiv(x, y)

\* x <= y of JavaScript for a finite y: false for Infinity and for NaN
JsLeq(x, y) == x.d # 0 /\ RatLeq(x, y)

Marker(p, type, label, detail) ==
    [lat |-> p.lat, lon |-> p.lon, type |-> type, label |-> label, detail |-> detail]

\* `${unit === 'm' ? (next * 1000).toFixed(0) : next.toFixed(1)}${unit}`
DistanceLabel(cfg, nextDistMarker) ==
    << IF cfg.distance.unit = "m"
       THEN ToFixed(RatMul(nextDistMarker, Rat(1000, 1)), 0)
       ELSE ToFixed(nextDistMarker, 1),
       cfg.distance.unit >>

\* the distance detector catching up: a second marker at the same point when the
\* cumulative distance has passed the threshold after the next as well
DistanceDetectorCatchingUp(cfg, p2, accumDist, nextDistMarker, markers) ==
    IF cfg.distance.enabled /\ RatGeq(accumDist, nextDistMarker)
    THEN IF RatGeq(accumDist, RatAdd(nextDistMarker, distIntervalKm(cfg)))
         THEN [markers |->
                   markers \o
                   << Marker(p2, "DISTANCE", DistanceLabel(cfg, nextDistMarker),
                             << "Total: ", ToFixed(accumDist, 2), "km" >>),
                      Marker(p2, "DISTANCE",
                             DistanceLabel(cfg, RatAdd(nextDistMarker,
                                                       distIntervalKm(cfg))),
                             << "Total: ", ToFixed(accumDist, 2), "km" >>) >>,
               nextDistMarker |->
                   RatAdd(RatAdd(nextDistMarker, distIntervalKm(cfg)),
                          distIntervalKm(cfg))]
         ELSE [markers |-> Append(markers,
                             Marker(p2, "DISTANCE", DistanceLabel(cfg, nextDistMarker),
                                    << "Total: ", ToFixed(accumDist, 2), "km" >>)),
               nextDistMarker |-> RatAdd(nextDistMarker, distIntervalKm(cfg))]
    ELSE [markers |-> markers, nextDistMarker |-> nextDistMarker]

\* the distance detector comparing with > instead of >=
DistanceDetectorStrict(cfg, p2, accumDist, nextDistMarker, markers) ==
    IF cfg.distance.enabled /\ RatGt(accumDist, nextDistMarker)
    THEN [markers |-> Append(markers,
                        Marker(p2, "DISTANCE", DistanceLabel(cfg, nextDistMarker),
                               << "Total: ", ToFixed(accumDist, 2), "km" >>)),
          nextDistMarker |-> RatAdd(nextDistMarker, distIntervalKm(cfg))]
    ELSE [markers |-> markers, nextDistMarker |-> nextDistMarker]

\* the distance detector leaving nextDistMarker where it was
DistanceDetectorNoAdvance(cfg, p2, accumDist, nextDistMarker, markers) ==
    IF cfg.distance.enabled /\ RatGeq(accumDist, nextDistMarker)
    THEN [markers |-> Append(markers,
                        Marker(p2, "DISTANCE", DistanceLabel(cfg, nextDistMarker),
                               << "Total: ", ToFixed(accumDist, 2), "km" >>)),
          nextDistMarker |-> nextDistMarker]
    ELSE [markers |-> markers, nextDistMarker |-> nextDistMarker]

\* the distance detector of one loop iteration
DistanceDetector(cfg, p2, accumDist, nextDistMarker, markers) ==
    IF cfg.distance.enabled /\ RatGeq(accumDist, nextDistMarker)
    THEN [markers |-> Append(markers,
                        Marker(p2, "DISTANCE", DistanceLabel(cfg, nextDistMarker),
                               << "Total: ", ToFixed(accumDist, 2), "km" >>)),
          nextDistMarker |-> RatAdd(nextDistMarker, distIntervalKm(cfg))]
    ELSE [markers |-> markers, nextDistMarker |-> nextDistMarker]

\* the time detector of one loop iteration (inside p1.time && p2.time && firstTime)
TimeDetector(cfg, p2, accumTimeMs, nextTimeMarker, markers) ==
    IF cfg.time.enabled /\ accumTimeMs >= nextTimeMarker
    THEN [markers |-> Append(markers,
                        Marker(p2, "TIME",
                               << "+",
                                  ToFixed(Rat(accumTimeMs,
                                              1000 * (IF cfg.time.unit = "hr"
                                                      THEN 3600 ELSE 60)), 0),
                                  cfg.time.unit >>,
                               << "Time elapsed: ",
                                  ToFixed(Rat(accumTimeMs, 60000), 0), " mins" >>)),
          nextTimeMarker |-> nextTimeMarker + timeIntervalMs(cfg)]
    ELSE [markers |-> markers, nextTimeMarker |-> nextTimeMarker]

\* the speed as the quotient alone, whatever the sign of the time difference
SegmentSpeedUnguarded(dist, t1, t2) == JsDiv(dist, Rat(t2 - t1, 3600000))

\* speedKmh = timeDiffHours > 0 ? dist / timeDiffHours : 0
SegmentSpeed(dist, t1, t2) ==
    LET timeDiffHours == Rat(t2 - t1, 3600000)
    IN  IF RatGt(timeDiffHours, Zero) THEN RatDiv(dist, timeDiffHours) ELSE Zero

\* the speed detector of one loop iteration
SpeedDetector(cfg, points, i, t1, speedKmh, markers) ==
    IF cfg.speed.enabled /\ RatGt(speedKmh, speedLimitKmh(cfg))
    THEN LET prevTime == IF i > 0 /\ HasTime(At(points, i - 1))
                         THEN At(points, i - 1).time ELSE 0
             prevDist == IF i > 0 THEN getDistance(At(points, i - 1), At(points, i))
                         ELSE Zero
             prevSpeed == IF i > 0 /\ Truthy(prevTime)
                          THEN JsDiv(prevDist, Rat(t1 - prevTime, 3600000))
                          ELSE Zero
         IN  IF JsLeq(prevSpeed, speedLimitKmh(cfg))
             THEN Append(markers,
                     Marker(At(points, i), "SPEED",
                            << "! ",
                               IF cfg.speed.unit = "mph"
                               THEN ToFixed(RatDiv(speedKmh, Rat(1609, 1000)), 0)
                               ELSE ToFixed(speedKmh, 0),
                               "" >>,
                            << "Speeding: ", ToFixed(speedKmh, 1), " km/h" >>))
             ELSE markers
    ELSE markers

StopMarker(stopStartPoint, duration) ==
    Marker(stopStartPoint, "STOP",
           << "Stop ", ToFixed(Rat(duration, 60000), 1), "m" >>,
           << "Stopped for ", ToFixed(Rat(duration, 60000), 1), " mins" >>)

\* the stop detector closing a run whatever its duration
StopDetectorNoThreshold(cfg, p1, t1, speedKmh, stopStartTime, stopStartPoint, markers) ==
    IF ~cfg.stop.enabled
    THEN [markers |-> markers, stopStartTime |-> stopStartTime,
          stopStartPoint |-> stopStartPoint]
    ELSE IF RatLt(speedKmh, One)
    THEN IF ~Truthy(stopStartTime)
         THEN [markers |-> markers, stopStartTime |-> t1, stopStartPoint |-> p1]
         ELSE [markers |-> markers, stopStartTime |-> stopStartTime,
               stopStartPoint |-> stopStartPoint]
    ELSE IF Truthy(stopStartTime)
         THEN [markers |-> Append(markers, StopMarker(stopStartPoint, t1 - stopStartTime)),
               stopStartTime |-> NoTime, stopStartPoint |-> NoPoint]
         ELSE [markers |-> markers, stopStartTime |-> stopStartTime,
               stopStartPoint |-> stopStartPoint]

\* the stop detector of one loop iteration
StopDetector(cfg, p1, t1, speedKmh, stopStartTime, stopStartPoint, markers) ==
    IF ~cfg.stop.enabled
    THEN [markers |-> markers, stopStartTime |-> stopStartTime,
          stopStartPoint |-> stopStartPoint]
    ELSE IF RatLt(speedKmh, One)
    THEN \* isStopped
         IF ~Truthy(stopStartTime)
         THEN [markers |-> markers, stopStartTime |-> t1, stopStartPoint |-> p1]
         ELSE [markers |-> markers, stopStartTime |-> stopStartTime,
               stopStartPoint |-> stopStartPoint]
    ELSE IF Truthy(stopStartTime)
         THEN LET duration == t1 - stopStartTime
              IN  [markers |-> IF duration >= stopMinDurationMs(cfg)
                               THEN Append(markers, StopMarker(stopStartPoint, duration))
                               ELSE markers,
                   stopStartTime |-> NoTime, stopStartPoint |-> NoPoint]
         ELSE [markers |-> markers, stopStartTime |-> stopStartTime,
               stopStartPoint |-> stopStartPoint]

\* the scan dropping a run that is still open at the end
StopFlushNone(cfg, points, stopStartTime, stopStartPoint, markers) == markers

\* after the loop: the run that is still open, against the last point's time
StopFlush(cfg, points, stopStartTime, stopStartPoint, markers) ==
    IF /\ cfg.stop.enabled
       /\ Truthy(stopStartTime)
       /\ stopStartPoint # NoPoint
       /\ Len(points) > 0
    THEN LET lastPoint == At(points, Len(points) - 1)
         IN  IF HasTime(lastPoint)
             THEN LET duration == lastPoint.time - stopStartTime
                  IN  IF duration >= stopMinDurationMs(cfg)
                      THEN Append(markers, StopMarker(stopStartPoint, duration))
                      ELSE markers
             ELSE markers
    ELSE markers

\* the accumulators before the loop
ScanStart(cfg, points) ==
    [i |-> 0,
     accumDist |-> Zero,
     nextDistMarker |-> distIntervalKm(cfg),
     accumTimeMs |-> 0,
     nextTimeMarker |-> timeIntervalMs(cfg),
     firstTime |-> IF Len(points) > 0 /\ HasTime(At(points, 0))
                   THEN At(points, 0).time ELSE NoTime,
     stopStartTime |-> NoTime,
     stopStartPoint |-> NoPoint,
     markers |-> << >>]

\* One iteration of the loop, for i = acc.i.  ScanSegment measures the segment;
\* each of the operators before it is the loop body from one statement on, given
\* the values the statements before it have computed.

\* the accumulators after an iteration that passed the gate
SegmentEnd(acc, accumDist, d, accumTimeMs, t, st) ==
    [i |-> acc.i + 1,
     accumDist |-> accumDist,
     nextDistMarker |-> d.nextDistMarker,
     accumTimeMs |-> accumTimeMs,
     nextTimeMarker |-> t.nextTimeMarker,
     firstTime |-> acc.firstTime,
     stopStartTime |-> st.stopStartTime,
     stopStartPoint |-> st.stopStartPoint,
     markers |-> st.markers]

\* the stop detector left out on a segment above the limit of an enabled speed
\* rule
TimedSegmentSpeedElseStop(acc, points, cfg, p1, accumDist, d, accumTimeMs, t, speedKmh) ==
    SegmentEnd(acc, accumDist, d, accumTimeMs, t,
               IF cfg.speed.enabled /\ RatGt(speedKmh, speedLimitKmh(cfg))
               THEN [stopStartTime |-> acc.stopStartTime,
                     stopStartPoint |-> acc.stopStartPoint,
                     markers |-> SpeedDetector(cfg, points, acc.i, p1.time, speedKmh,
                                               t.markers)]
               ELSE StopDetector(cfg, p1, p1.time, speedKmh, acc.stopStartTime,
                                 acc.stopStartPoint,
                                 SpeedDetector(cfg, points, acc.i, p1.time, speedKmh,
                                               t.markers)))

\* from the speed detector on
TimedSegment(acc, points, cfg, p1, accumDist, d, accumTimeMs, t, speedKmh) ==
    SegmentEnd(acc, accumDist, d, accumTimeMs, t,
               StopDetector(cfg, p1, p1.time, speedKmh, acc.stopStartTime,
                            acc.stopStartPoint,
                            SpeedDetector(cfg, points, acc.i, p1.time, speedKmh,
                                          t.markers)))

\* the gate without firstTime: the timestamps of the segment alone open it
GatedSegmentWithoutFirstTime(acc, points, cfg, p1, p2, dist, accumDist, d, accumTimeMs) ==
    IF HasTime(p1) /\ HasTime(p2)
    THEN TimedSegment(acc, points, cfg, p1, accumDist, d, accumTimeMs,
                      TimeDetector(cfg, p2, accumTimeMs, acc.nextTimeMarker, d.markers),
                      SegmentSpeed(dist, p1.time, p2.time))
    ELSE [acc EXCEPT !.i = acc.i + 1,
                     !.accumDist = accumDist,
                     !.nextDistMarker = d.nextDistMarker,
                     !.markers = d.markers]

\* the gate closing on the distance detector as well: an iteration that fails
\* it keeps the distance and drops the marker
GatedSegmentDistanceInside(acc, points, cfg, p1, p2, dist, accumDist, d, accumTimeMs) ==
    IF HasTime(p1) /\ HasTime(p2) /\ Truthy(acc.firstTime)
    THEN TimedSegment(acc, points, cfg, p1, accumDist, d, accumTimeMs,
                      TimeDetector(cfg, p2, accumTimeMs, acc.nextTimeMarker, d.markers),
                      SegmentSpeed(dist, p1.time, p2.time))
    ELSE [acc EXCEPT !.i = acc.i + 1,
                     !.accumDist = accumDist]

\* from  if (p1.time && p2.time && firstTime)  on
GatedSegment(acc, points, cfg, p1, p2, dist, accumDist, d, accumTimeMs) ==
    IF HasTime(p1) /\ HasTime(p2) /\ Truthy(acc.firstTime)
    THEN TimedSegment(acc, points, cfg, p1, accumDist, d, accumTimeMs,
                      TimeDetector(cfg, p2, accumTimeMs, acc.nextTimeMarker, d.markers),
                      SegmentSpeed(dist, p1.time, p2.time))
    ELSE [acc EXCEPT !.i = acc.i + 1,
                     !.accumDist = accumDist,
                     !.nextDistMarker = d.nextDistMarker,
                     !.markers = d.markers]

\* from the distance detector on
MeasuredSegment(acc, points, cfg, p1, p2, dist, accumDist) ==
    GatedSegment(acc, points, cfg, p1, p2, dist, accumDist,
                 DistanceDetector(cfg, p2, accumDist, acc.nextDistMarker, acc.markers),
                 p2.time - acc.firstTime)

ScanSegment(acc, points, cfg) ==
    LET p1 == At(points, acc.i)
        p2 == At(points, acc.i + 1)
    IN  MeasuredSegment(acc, points, cfg, p1, p2, getDistance(p1, p2),
                        RatAdd(acc.accumDist, getDistance(p1, p2)))

\* the whole loop followed by the flush: the markers passed to onAnnotationsUpdate
\* (every accumulator record is made a value before the next iteration uses it)
ScanMarkers(points, cfg) ==
    LET run[k \in 0..Len(points)] ==
            IF k = 0 THEN ScanStart(cfg, points)
            ELSE CHOOSE next \in { ScanSegment(acc, points, cfg) : acc \in {run[k - 1]} } :
                     TRUE
    IN  CHOOSE markers \in
            { StopFlush(cfg, points, end.stopStartTime, end.stopStartPoint, end.markers) :
                end \in {run[IF Len(points) = 0 THEN 0 ELSE Len(points) - 1]} } : TRUE

\* the effect publishing the scan although the markers are switched off
AnnotationEffectNoVisibility(track, visible, cfg) ==
    IF ~track.present THEN << >>
    ELSE ScanMarkers(track.points, cfg)

\* the annotation effect: what it passes to onAnnotationsUpdate
AnnotationEffect(track, visible, cfg) ==
    IF ~track.present THEN << >>
    ELSE IF ~visible THEN << >>
    ELSE ScanMarkers(track.points, cfg)

(* ------------------------- simulation player --------------------------- *)
VARIABLES
    currentTrack,      \* App: trackData, passed down as currentTrack
    error,             \* Sidebar: error
    isSimulating,      \* Sidebar: isSimulating
    simProgress,       \* Sidebar: simProgress
    simSpeed,          \* Sidebar: simSpeed, km/h
    frame,             \* the animation frame requested by the animation loop
                       \* effect, with what its closure captured
    metadata,          \* Sidebar: the value of the trackMetadata memo
    simulationStatus,  \* App: what onSimulationUpdate last published
    showSmartMarkers,  \* Sidebar: showSmartMarkers, the master visibility flag
    annotConfig,       \* Sidebar: annotConfig
    annotations,       \* App: what onAnnotationsUpdate last published
    scan,              \* the annotation effect while it runs: the position of
                       \* its loop and its accumulators
    lastCmd            \* observation only: the handler that ran last, its input

vars == << currentTrack, error, isSimulating, simProgress, simSpeed, frame,
           metadata, simulationStatus, showSmartMarkers, annotConfig, annotations, scan,
           lastCmd >>

\* inputs
SpeedButtons == {100, 200}
\* slider positions, in thousandths (min 0, max 1, step 0.001)
ScrubSteps == {0, 500, 1000}
\* milliseconds between two animation frames (time - lastTime)
FrameDeltas == {0, 18000}

NoError == "null"
ParseError == "parse error"

NoFrame == [pending |-> FALSE, simSpeed |-> 0, totalDist |-> Zero]

\* no annotation effect is running
NoScan == [running |-> FALSE, acc |-> ScanStart(DefaultAnnotConfig, << >>)]

Cmd(kind, arg) == [kind |-> kind, arg |-> arg]

\* the updater replaying from the start when it is called at progress 1
animateRewinding(prev, totalDist, distMovedKm) ==
    LET currentDistanceKm == IF prev = One THEN Zero ELSE RatMul(prev, totalDist)
        newDistanceKm == RatAdd(currentDistanceKm, distMovedKm)
    IN  IF RatGeq(newDistanceKm, totalDist)
        THEN [progress |-> One, stop |-> TRUE]
        ELSE [progress |-> RatDiv(newDistanceKm, totalDist), stop |-> FALSE]

\* the updater stopping at the end without clamping the fraction
animateOvershoot(prev, totalDist, distMovedKm) ==
    LET newDistanceKm == RatAdd(RatMul(prev, totalDist), distMovedKm)
    IN  IF RatGeq(newDistanceKm, totalDist)
        THEN [progress |-> IF totalDist = Zero THEN One
                           ELSE RatDiv(newDistanceKm, totalDist),
              stop |-> TRUE]
        ELSE [progress |-> RatDiv(newDistanceKm, totalDist), stop |-> FALSE]

\* the updater subtracting the distance moved
animateBackward(prev, totalDist, distMovedKm) ==
    LET newDistanceKm == RatSub(RatMul(prev, totalDist), distMovedKm)
    IN  IF RatGeq(newDistanceKm, totalDist) \/ totalDist = Zero
        THEN [progress |-> One, stop |-> TRUE]
        ELSE [progress |-> RatDiv(newDistanceKm, totalDist), stop |-> FALSE]

\* the updater clamping at the end without calling setIsSimulating(false)
animateNoStop(prev, totalDist, distMovedKm) ==
    LET newDistanceKm == RatAdd(RatMul(prev, totalDist), distMovedKm)
    IN  IF RatGeq(newDistanceKm, totalDist)
        THEN [progress |-> One, stop |-> FALSE]
        ELSE [progress |-> RatDiv(newDistanceKm, totalDist), stop |-> FALSE]

\* the updater passed to setSimProgress by animate; stop = it called
\* setIsSimulating(false)
animate(prev, totalDist, distMovedKm) ==
    LET currentDistanceKm == RatMul(prev, totalDist)
        newDistanceKm == RatAdd(currentDistanceKm, distMovedKm)
    IN  IF RatGeq(newDistanceKm, totalDist)
        THEN [progress |-> One, stop |-> TRUE]
        ELSE [progress |-> RatDiv(newDistanceKm, totalDist), stop |-> FALSE]

\* the distance moved with the speed taken per minute
distMovedPerMinute(speed, deltaMs) == RatMul(Rat(speed, 60), Rat(deltaMs, 1000))

\* distMovedKm = (simSpeed / 3600) * dt, dt = deltaMs / 1000 seconds
distMoved(speed, deltaMs) == RatMul(Rat(speed, 3600), Rat(deltaMs, 1000))

\* the effect with a frame callback that keeps the speed it first captured
AnimationLoopEffectFirstSpeed(old, depsChanged, simulating, speed, meta, track) ==
    IF ~depsChanged THEN old
    ELSE IF ~simulating \/ ~meta.present \/ ~track.present THEN NoFrame
    ELSE [pending |-> TRUE,
          simSpeed |-> IF old.pending THEN old.simSpeed ELSE speed,
          totalDist |-> meta.totalDist]

\* the effect without its cleanup: a run that bails out leaves the frame requested
AnimationLoopEffectNoCancel(old, depsChanged, simulating, speed, meta, track) ==
    IF ~depsChanged THEN old
    ELSE IF ~simulating \/ ~meta.present \/ ~track.present THEN old
    ELSE [pending |-> TRUE, simSpeed |-> speed, totalDist |-> meta.totalDist]

\* The animation loop effect after a render.  depsChanged: one of
\* [isSimulating, simSpeed, trackMetadata, currentTrack] changed, so the cleanup
\* of the previous run cancels its frame and the effect body runs again.
AnimationLoopEffect(old, depsChanged, simulating, speed, meta, track) ==
    IF ~depsChanged THEN old
    ELSE IF ~simulating \/ ~meta.present \/ ~track.present THEN NoFrame
    ELSE [pending |-> TRUE, simSpeed |-> speed, totalDist |-> meta.totalDist]

\* the simulation controls are rendered only under currentTrack && trackMetadata
ControlsShown == currentTrack.present /\ trackMetadata(currentTrack).present

\* the re-render with an annotation effect that keeps the markers of its
\* earlier runs and adds the new ones to them
RenderKeepingMarkers ==
    \E meta \in {trackMetadata(currentTrack')} :
        /\ metadata' = meta
        /\ frame' = AnimationLoopEffect(frame,
                        << isSimulating', simSpeed', currentTrack' >>
                            # << isSimulating, simSpeed, currentTrack >>,
                        isSimulating', simSpeed', meta, currentTrack')
        /\ simulationStatus' = SimulationStatusOf(simProgress', meta, currentTrack')
        /\ annotations' =
               IF << annotConfig', currentTrack', showSmartMarkers' >>
                      = << annotConfig, currentTrack, showSmartMarkers >>
               THEN annotations
               ELSE annotations \o AnnotationEffect(currentTrack', showSmartMarkers',
                                                     annotConfig')
        /\ UNCHANGED scan

\* the re-render after the state has been written: the memo, then both effects
Render ==
    \E meta \in {trackMetadata(currentTrack')} :
        /\ metadata' = meta
        /\ frame' = AnimationLoopEffect(frame,
                        << isSimulating', simSpeed', currentTrack' >>
                            # << isSimulating, simSpeed, currentTrack >>,
                        isSimulating', simSpeed', meta, currentTrack')
        /\ simulationStatus' = SimulationStatusOf(simProgress', meta, currentTrack')
        /\ annotations' =
               IF << annotConfig', currentTrack', showSmartMarkers' >>
                      = << annotConfig, currentTrack, showSmartMarkers >>
               THEN annotations
               ELSE AnnotationEffect(currentTrack', showSmartMarkers', annotConfig')
        /\ UNCHANGED scan

Init ==
    /\ currentTrack = NoTrack
    /\ error = NoError
    /\ isSimulating = FALSE
    /\ simProgress = Zero
    /\ simSpeed = 100
    /\ frame = NoFrame
    /\ metadata = NoMetadata
    /\ simulationStatus = NoStatus
    /\ showSmartMarkers = TRUE
    /\ annotConfig = DefaultAnnotConfig
    /\ annotations = << >>
    /\ scan = NoScan
    /\ lastCmd = Cmd("init", 0)

\* handleFileChange / handleTextSubmit, parse succeeded
LoadOk ==
    \E t \in ParsedTracks :
        /\ error' = NoError
        /\ currentTrack' = t
        /\ simProgress' = Zero
        /\ isSimulating' = FALSE
        /\ UNCHANGED << simSpeed, showSmartMarkers, annotConfig >>
        /\ lastCmd' = Cmd("load", 0)
        /\ Render

\* a failed parse that also drops the track on show
LoadFailDroppingTrack ==
    /\ error' = ParseError
    /\ currentTrack' = NoTrack
    /\ UNCHANGED << simProgress, isSimulating, simSpeed,
                     showSmartMarkers, annotConfig >>
    /\ lastCmd' = Cmd("loadFail", 0)
    /\ Render

\* handleFileChange / handleTextSubmit, parse failed
LoadFail ==
    /\ error' = ParseError
    /\ UNCHANGED << currentTrack, simProgress, isSimulating, simSpeed,
                     showSmartMarkers, annotConfig >>
    /\ lastCmd' = Cmd("loadFail", 0)
    /\ Render

\* the play button offered although no simulation controls are rendered
StartUnguarded ==
    /\ ~isSimulating
    /\ isSimulating' = ~isSimulating
    /\ UNCHANGED << currentTrack, error, simProgress, simSpeed,
                     showSmartMarkers, annotConfig >>
    /\ lastCmd' = Cmd("start", 0)
    /\ Render

\* play/pause button while it shows "play"
Start ==
    /\ ControlsShown
    /\ ~isSimulating
    /\ isSimulating' = ~isSimulating
    /\ UNCHANGED << currentTrack, error, simProgress, simSpeed,
                     showSmartMarkers, annotConfig >>
    /\ lastCmd' = Cmd("start", 0)
    /\ Render

\* play/pause button while it shows "pause"
Pause ==
    /\ ControlsShown
    /\ isSimulating
    /\ isSimulating' = ~isSimulating
    /\ UNCHANGED << currentTrack, error, simProgress, simSpeed,
                     showSmartMarkers, annotConfig >>
    /\ lastCmd' = Cmd("pause", 0)
    /\ Render

\* handleResetSimulation
Reset ==
    /\ ControlsShown
    /\ isSimulating' = FALSE
    /\ simProgress' = Zero
    /\ UNCHANGED << currentTrack, error, simSpeed,
                     showSmartMarkers, annotConfig >>
    /\ lastCmd' = Cmd("reset", 0)
    /\ Render

\* the slider handler without its "if (isSimulating) setIsSimulating(false)"
ScrubNoPause ==
    \E k \in ScrubSteps :
        /\ ControlsShown
        /\ simProgress' = Rat(k, 1000)
        /\ UNCHANGED << currentTrack, error, simSpeed, isSimulating,
                     showSmartMarkers, annotConfig >>
        /\ lastCmd' = Cmd("scrub", k)
        /\ Render

\* progress slider onChange
Scrub ==
    \E k \in ScrubSteps :
        /\ ControlsShown
        /\ simProgress' = Rat(k, 1000)
        /\ isSimulating' = IF isSimulating THEN FALSE ELSE isSimulating
        /\ UNCHANGED << currentTrack, error, simSpeed,
                     showSmartMarkers, annotConfig >>
        /\ lastCmd' = Cmd("scrub", k)
        /\ Render

\* speed buttons / speed slider
SetSpeed ==
    \E v \in SpeedButtons :
        /\ ControlsShown
        /\ simSpeed' = v
        /\ UNCHANGED << currentTrack, error, simProgress, isSimulating,
                     showSmartMarkers, annotConfig >>
        /\ lastCmd' = Cmd("speed", v)
        /\ Render

\* the animation frame callback
TickBy(deltaMs) ==
    /\ frame.pending
    /\ lastCmd' = Cmd("tick", deltaMs)
    /\ \E r \in {animate(simProgress, frame.totalDist,
                          distMoved(frame.simSpeed, deltaMs))} :
           /\ simProgress' = r.progress
           /\ isSimulating' = IF r.stop THEN FALSE ELSE isSimulating
    /\ UNCHANGED << currentTrack, error, simSpeed,
                     showSmartMarkers, annotConfig >>
    /\ Render

Tick == \E deltaMs \in FrameDeltas : TickBy(deltaMs)

Next ==
    \/ LoadOk
    \/ LoadFail
    \/ Start
    \/ Pause
    \/ Reset
    \/ Scrub
    \/ SetSpeed
    \/ Tick

Spec == Init /\ [][Next]_vars

\* Playback of one loaded track: the behaviours in which a track is loaded once
\* and no later load replaces it.  Ticks that carry a positive delta keep
\* arriving while a frame is requested (requestAnimationFrame calls back).
FirstLoad == ~currentTrack.present /\ LoadOk

TickPositive == \E deltaMs \in FrameDeltas \ {0} : TickBy(deltaMs)

LiveNext ==
    \/ FirstLoad
    \/ LoadFail
    \/ Start
    \/ Pause
    \/ Reset
    \/ Scrub
    \/ SetSpeed
    \/ Tick

LiveSpec == Init /\ [][LiveNext]_vars /\ WF_vars(TickPositive)

(* ----------------------- annotation commands --------------------------- *)
\* the tracks loaded while the markers are configured
AnnotTracks == { StraightTrack, SpeedSpikeTrack, StopTrack }

\* handleFileChange / handleTextSubmit, parse succeeded, on a recorded track
LoadRecorded ==
    \E t \in AnnotTracks :
        /\ error' = NoError
        /\ currentTrack' = t
        /\ simProgress' = Zero
        /\ isSimulating' = FALSE
        /\ UNCHANGED << simSpeed, showSmartMarkers, annotConfig >>
        /\ lastCmd' = Cmd("load", 0)
        /\ Render

\* the smart markers switch
ToggleSmartMarkers ==
    /\ showSmartMarkers' = ~showSmartMarkers
    /\ UNCHANGED << currentTrack, error, simProgress, isSimulating, simSpeed,
                     annotConfig >>
    /\ lastCmd' = Cmd("markers", 0)
    /\ Render

RuleKeys == { "time", "distance", "stop", "speed" }

\* the four rule buttons: updateAnnot(key, { enabled: !enabled })
ToggleRule ==
    \E key \in RuleKeys :
        /\ annotConfig' = [annotConfig EXCEPT ![key].enabled = ~@]
        /\ UNCHANGED << currentTrack, error, simProgress, isSimulating, simSpeed,
                         showSmartMarkers >>
        /\ lastCmd' = Cmd("rule", 0)
        /\ Render

\* the unit select of the distance rule, rendered while the rule is enabled
SetDistanceUnit ==
    \E unit \in { "km", "mi", "m" } :
        /\ annotConfig.distance.enabled
        /\ annotConfig' = [annotConfig EXCEPT !.distance.unit = unit]
        /\ UNCHANGED << currentTrack, error, simProgress, isSimulating, simSpeed,
                         showSmartMarkers >>
        /\ lastCmd' = Cmd("distanceUnit", 0)
        /\ Render

\* the unit select of the speed rule, rendered while the rule is enabled
SetSpeedUnit ==
    \E unit \in { "kmh", "mph" } :
        /\ annotConfig.speed.enabled
        /\ annotConfig' = [annotConfig EXCEPT !.speed.unit = unit]
        /\ UNCHANGED << currentTrack, error, simProgress, isSimulating, simSpeed,
                         showSmartMarkers >>
        /\ lastCmd' = Cmd("speedUnit", 0)
        /\ Render

AnnotNext ==
    \/ LoadRecorded
    \/ ToggleSmartMarkers
    \/ ToggleRule
    \/ SetDistanceUnit
    \/ SetSpeedUnit

\* the component under the commands that decide the published markers
AnnotSpec == Init /\ [][AnnotNext]_vars

(* ------------------- loads while playing, with markers ----------------- *)
LoadNext ==
    \/ LoadRecorded
    \/ LoadFail
    \/ Start
    \/ TickPositive
    \/ ToggleRule

\* the component under loads that succeed and fail, while it plays a recorded
\* track and publishes markers
LoadSpec == Init /\ [][LoadNext]_vars

(* ------------------- the annotation scan, step by step ----------------- *)
\* a point 1 km on, stamped a minute before its predecessor
StepBack == [km |-> 1, min |-> -1, timed |-> TRUE]

\* tracks of four points on which the clock steps back
ClockBackTracks ==
    { TrackOf(PointsOf(TRUE, steps)) :
        steps \in { s \in [1..3 -> { Cruise, [km |-> 0, min |-> 10, timed |-> TRUE],
                                     StepBack }] :
                       \E k \in 1..3 : s[k] = StepBack } }

ScanTracks ==
    RecordedTracks(MaxScanPoints) \cup { StraightTrack, SpeedSpikeTrack }
        \cup ClockBackTracks

WithRule(cfg, key) == [cfg EXCEPT ![key].enabled = TRUE]

\* the configurations the scan is run under
ScanConfigs ==
    { DefaultAnnotConfig,
      WithRule(DefaultAnnotConfig, "time"),
      WithRule(WithRule(WithRule(WithRule(DefaultAnnotConfig, "time"),
                                 "distance"), "stop"), "speed") }
    \cup { [WithRule(DefaultAnnotConfig, "distance") EXCEPT !.distance.unit = unit] :
            unit \in { "km", "mi", "m" } }
    \cup { [WithRule(DefaultAnnotConfig, "stop") EXCEPT !.stop.unit = unit] :
            unit \in { "min", "sec" } }
    \cup { [WithRule(DefaultAnnotConfig, "speed") EXCEPT !.speed.unit = unit] :
            unit \in { "kmh", "mph" } }

\* the annotation effect starts on a loaded track with the markers switched on
ScanInit ==
    \E t \in ScanTracks, cfg \in ScanConfigs :
        /\ currentTrack = t
        /\ error = NoError
        /\ isSimulating = FALSE
        /\ simProgress = Zero
        /\ simSpeed = 100
        /\ frame = NoFrame
        /\ metadata = trackMetadata(t)
        /\ simulationStatus = SimulationStatusOf(Zero, trackMetadata(t), t)
        /\ showSmartMarkers = TRUE
        /\ annotConfig = cfg
        /\ annotations = << >>
        /\ scan = [running |-> TRUE, acc |-> ScanStart(cfg, t.points)]
        /\ lastCmd = Cmd("scanStart", 0)

\* one iteration of the loop
ScanLoop ==
    /\ scan.running
    /\ scan.acc.i < Len(currentTrack.points) - 1
    /\ scan' = [scan EXCEPT !.acc = ScanSegment(scan.acc, currentTrack.points,
                                                annotConfig)]
    /\ lastCmd' = Cmd("scanSegment", scan.acc.i)
    /\ UNCHANGED << currentTrack, error, isSimulating, simProgress, simSpeed, frame,
                     metadata, simulationStatus, showSmartMarkers, annotConfig, annotations >>

\* the loop is over: the flush, then onAnnotationsUpdate(markers)
ScanPublish ==
    /\ scan.running
    /\ ~(scan.acc.i < Len(currentTrack.points) - 1)
    /\ annotations' = StopFlush(annotConfig, currentTrack.points,
                                scan.acc.stopStartTime, scan.acc.stopStartPoint,
                                scan.acc.markers)
    /\ scan' = [scan EXCEPT !.running = FALSE]
    /\ lastCmd' = Cmd("scanEnd", 0)
    /\ UNCHANGED << currentTrack, error, isSimulating, simProgress, simSpeed, frame,
                     metadata, simulationStatus, showSmartMarkers, annotConfig >>

ScanNext ==
    \/ ScanLoop
    \/ ScanPublish

ScanSpec == ScanInit /\ [][ScanNext]_vars

(* ------------------- one render, one hook at a time -------------------- *)
\* The memo and the two effects that read it, each run on inputs of its own:
\* the track the component is given, the progress the player has reached, the
\* configuration the user has set.  The two effects read and write nothing of
\* each other, so each is run from the state the memo leaves.

\* the steps of a recording as the aggregator can meet them
RenderStepKinds ==
    StepKinds
    \cup { [km |-> 20, min |-> 1,  timed |-> TRUE],     \* 1200 km/h
           [km |-> 1,  min |-> -1, timed |-> TRUE] }    \* the clock steps back

\* the same track with no timestamp on any point
Untimed(track) ==
    [track EXCEPT !.points = [k \in 1..Len(track.points) |->
                                 [track.points[k] EXCEPT !.time = NoTime]]]

\* tracks as the TrackData type admits them: with or without distanceKm, with
\* any number of points, with all, some or none of the timestamps; and no track
RenderTracks ==
    LET recorded == { PointsOf(firstTimed, steps) :
                        firstTimed \in BOOLEAN,
                        steps \in UNION { [1..k -> RenderStepKinds] :
                                             k \in 0..(MaxRenderPoints - 1) } }
        given == { TrackOf(ps) : ps \in recorded \cup { << >> } }
                 \cup { TrackWithoutDistance(ps) : ps \in recorded }
    IN  given \cup { Untimed(t) : t \in given } \cup { NoTrack }

\* the fractions of the track the player has reached
RenderProgress == { Rat(k, 4) : k \in 0..4 }

\* the component is given a track; nothing has been derived from it yet
RenderInit ==
    \E t \in RenderTracks :
        /\ currentTrack = t
        /\ error = NoError
        /\ isSimulating = FALSE
        /\ simProgress = Zero
        /\ simSpeed = 100
        /\ frame = NoFrame
        /\ metadata = NoMetadata
        /\ simulationStatus = NoStatus
        /\ showSmartMarkers = TRUE
        /\ annotConfig = DefaultAnnotConfig
        /\ annotations = << >>
        /\ scan = NoScan
        /\ lastCmd = Cmd("given", 0)

\* useMemo(..., [currentTrack])
Memo ==
    /\ lastCmd.kind = "given"
    /\ metadata' = trackMetadata(currentTrack)
    /\ lastCmd' = Cmd("memo", 0)
    /\ UNCHANGED << currentTrack, error, isSimulating, simProgress, simSpeed, frame,
                     simulationStatus, showSmartMarkers, annotConfig, annotations,
                     scan >>

\* the simulation position effect, for the progress the player has reached
PositionEffect ==
    \E progress \in RenderProgress :
        /\ lastCmd.kind = "memo"
        /\ simProgress' = progress
        /\ simulationStatus' = SimulationStatusOf(progress, metadata, currentTrack)
        /\ lastCmd' = Cmd("position", 0)
        /\ UNCHANGED << currentTrack, error, isSimulating, simSpeed, frame, metadata,
                         showSmartMarkers, annotConfig, annotations, scan >>

\* the annotation effect, for the configuration the user has set
AnnotationsEffect ==
    \E cfg \in ScanConfigs :
        /\ lastCmd.kind = "memo"
        /\ annotConfig' = cfg
        /\ annotations' = AnnotationEffect(currentTrack, showSmartMarkers, cfg)
        /\ lastCmd' = Cmd("annotations", 0)
        /\ UNCHANGED << currentTrack, error, isSimulating, simProgress, simSpeed,
                         frame, metadata, simulationStatus, showSmartMarkers, scan >>

RenderNext ==
    \/ Memo
    \/ PositionEffect
    \/ AnnotationsEffect

RenderSpec == RenderInit /\ [][RenderNext]_vars

(* ------------------------------ claims --------------------------------- *)
TrackLoaded == currentTrack.present /\ Len(currentTrack.points) > 0
TotalDist == trackMetadata(currentTrack).totalDist
FirstPoint == At(currentTrack.points, 0)
LastPoint == At(currentTrack.points, Len(currentTrack.points) - 1)
TickStep == lastCmd'.kind = "tick"
InOpenUnit(x) == RatLt(Zero, x) /\ RatLt(x, One)

\* C1: a tick applied while the track has total distance 0, or while no track
\* is loaded, leaves progress as it was.
C1_TickOnZeroDistanceIsNoOp ==
    [][(TickStep /\ (~TrackLoaded \/ TotalDist = Zero)) => simProgress' = simProgress]_vars

\* C2: at progress = 1 the published status is the last point, bearing 0,
\* lastIndex = N - 1.
C2_ProgressOneIsLastPoint ==
    (TrackLoaded /\ simProgress = One) =>
        /\ simulationStatus.present
        /\ simulationStatus.lat = Rat(LastPoint.lat, 1)
        /\ simulationStatus.lon = Rat(LastPoint.lon, 1)
        /\ simulationStatus.bearing = 0
        /\ simulationStatus.lastIndex = Len(currentTrack.points) - 1

\* C3: at progress = 0 the published status is exactly the first point with
\* lastIndex = 0, whatever the track (one point, zero-length first segments).
C3_ProgressZeroIsFirstPoint ==
    (TrackLoaded /\ simProgress = Zero) =>
        /\ simulationStatus.present
        /\ simulationStatus.lat = Rat(FirstPoint.lat, 1)
        /\ simulationStatus.lon = Rat(FirstPoint.lon, 1)
        /\ simulationStatus.lastIndex = 0

C3_Witness ==
    /\ TrackLoaded
    /\ Len(currentTrack.points) = 3
    /\ At(currentTrack.points, 0).lon = At(currentTrack.points, 1).lon
    /\ At(currentTrack.points, 1).lon # At(currentTrack.points, 2).lon
    /\ lastCmd.kind = "reset"
    /\ simProgress = Zero
    /\ simulationStatus.present

C5_ProgressInUnitInterval ==
    RatLeq(Zero, simProgress) /\ RatLeq(simProgress, One)

C5_Witness ==
    /\ lastCmd.kind = "tick"
    /\ lastCmd.arg > 0
    /\ simProgress = One
    /\ RatGt(TotalDist, Zero)

\* C6: a tick never lowers progress; progress decreases only through a manual
\* scrub, a reset or a track load.
C6_MonotonicWhilePlaying ==
    [][/\ TickStep => RatGeq(simProgress', simProgress)
       /\ RatLt(simProgress', simProgress) =>
              lastCmd'.kind \in {"scrub", "reset", "load"}]_vars

C6_Witness ==
    /\ lastCmd.kind = "tick"
    /\ lastCmd.arg > 0
    /\ isSimulating
    /\ RatGt(simProgress, Rat(1, 2))

\* C7: on a track with positive total distance a tick of dt seconds at the
\* playback speed v sets progress to 1 and stops the player when
\* progress * total + (v / 3600) * dt >= total, and otherwise sets progress to
\* that distance divided by total and leaves the player playing.
C7_TickContract ==
    [][(TickStep /\ RatGt(TotalDist, Zero)) =>
         LET dt == Rat(lastCmd'.arg, 1000)
             newDistanceKm == RatAdd(RatMul(simProgress, TotalDist),
                                     RatMul(Rat(simSpeed, 3600), dt))
         IN  IF RatGeq(newDistanceKm, TotalDist)
             THEN simProgress' = One /\ ~isSimulating'
             ELSE /\ simProgress' = RatDiv(newDistanceKm, TotalDist)
                  /\ isSimulating']_vars

C7_Witness ==
    /\ lastCmd.kind = "tick"
    /\ lastCmd.arg > 0
    /\ simSpeed = 200
    /\ isSimulating
    /\ InOpenUnit(simProgress)

\* C8: during the playback of a loaded track, a player that is playing
\* eventually has progress 1 and is idle, unless a pause, a scrub or a reset
\* intervenes.
C8_PlaybackFinishes ==
    [](isSimulating =>
         <>(\/ simProgress = One /\ ~isSimulating
            \/ lastCmd.kind \in {"pause", "scrub", "reset"}))

C8_Witness ==
    /\ lastCmd.kind = "tick"
    /\ simProgress = One
    /\ ~isSimulating
    /\ ~frame.pending
    /\ RatGt(TotalDist, One)

\* C9: after a scrub to f the player is idle with progress f, after a reset it
\* is idle with progress 0, after a pause it is idle with progress unchanged.
C9_CancellingCommands ==
    [][/\ lastCmd'.kind = "scrub" =>
              ~isSimulating' /\ simProgress' = Rat(lastCmd'.arg, 1000)
       /\ lastCmd'.kind = "reset" => ~isSimulating' /\ simProgress' = Zero
       /\ lastCmd'.kind = "pause" =>
              ~isSimulating' /\ simProgress' = simProgress]_vars

C9_Witness ==
    /\ lastCmd = Cmd("scrub", 500)
    /\ ~isSimulating
    /\ simProgress = Rat(1, 2)

\* C10: the player starts playing only by the start command, issued while idle
\* with a non-empty track, and that command changes neither progress nor
\* playback speed; with no track, or while playing, nothing starts it.
C10_StartCommand ==
    [][/\ lastCmd'.kind = "start" =>
              /\ ~isSimulating /\ isSimulating'
              /\ simProgress' = simProgress /\ simSpeed' = simSpeed
       /\ (~isSimulating /\ isSimulating') =>
              /\ lastCmd'.kind = "start"
              /\ TrackLoaded
              /\ frame'.pending]_vars

C10_Witness ==
    /\ lastCmd.kind = "start"
    /\ isSimulating
    /\ frame.pending
    /\ simProgress = Rat(1, 2)

(* ---------------------- claims on the annotation scan ------------------ *)
ScanPoints == currentTrack.points
SegStep == lastCmd'.kind = "scanSegment"
ScanDone == ~scan.running /\ lastCmd.kind = "scanEnd"
OfType(markers, type) == SelectSeq(markers, LAMBDA m : m.type = type)
\* the markers pushed by the step
NewMarkers ==
    SubSeq(scan'.acc.markers, Len(scan.acc.markers) + 1, Len(scan'.acc.markers))
AtPoint(m, k) == m.lat = At(ScanPoints, k).lat /\ m.lon = At(ScanPoints, k).lon
\* segment k has a speed: the scan computes one for the segments whose two
\* points carry a timestamp, on a track whose point 0 carries one
Examined(k) ==
    /\ HasTime(At(ScanPoints, 0))
    /\ HasTime(At(ScanPoints, k))
    /\ HasTime(At(ScanPoints, k + 1))
SpeedOf(k) ==
    SegmentSpeed(getDistance(At(ScanPoints, k), At(ScanPoints, k + 1)),
                 At(ScanPoints, k).time, At(ScanPoints, k + 1).time)
Exceeds(k) == Examined(k) /\ RatGt(SpeedOf(k), speedLimitKmh(annotConfig))
RunStart(k) == Exceeds(k) /\ (k = 0 \/ ~Exceeds(k - 1))

\* C11: with the speed rule enabled, the iteration for segment i pushes one
\* SPEED marker at p[i] if the speed of segment i exceeds the limit and the
\* speed of segment i-1 (by the same rule; none for i = 0) does not, and pushes
\* no SPEED marker otherwise.
C11_SpeedRisingEdge ==
    [][(SegStep /\ annotConfig.speed.enabled) =>
         LET i == scan.acc.i
             new == OfType(NewMarkers, "SPEED")
         IN  IF RunStart(i)
             THEN Len(new) = 1 /\ AtPoint(new[1], i)
             ELSE Len(new) = 0]_vars

\* C12: with the speed rule enabled, the published SPEED markers are, in
\* order, one marker at the first point of every maximal run of segments whose
\* speed exceeds the limit, and no other.
C12_OneMarkerPerSpeedingRun ==
    (ScanDone /\ annotConfig.speed.enabled) =>
        LET starts == { k \in 0..(Len(ScanPoints) - 2) : RunStart(k) }
            speedMarkers == OfType(annotations, "SPEED")
        IN  /\ Len(speedMarkers) = Cardinality(starts)
            /\ \A k \in starts :
                   AtPoint(speedMarkers[Cardinality({ j \in starts : j <= k })], k)

Stopped(k) == Examined(k) /\ RatLt(SpeedOf(k), One)
Moving(k) == Examined(k) /\ ~RatLt(SpeedOf(k), One)
\* a stopped run that begins at segment r is open when the scan comes to segment i
OpenFrom(r, i) == Stopped(r) /\ \A j \in r..(i - 1) : ~Moving(j)
HasOpenRun(i) == \E r \in 0..(i - 1) : OpenFrom(r, i)
OpenRunStart(i) ==
    CHOOSE r \in 0..(i - 1) :
        OpenFrom(r, i) /\ \A q \in 0..(r - 1) : ~OpenFrom(q, i)
\* "Stop <minutes with one decimal>m" for a duration in milliseconds
StopLabel(duration) ==
    << "Stop ", [digits |-> 1, scaled |-> (duration + 3000) \div 6000], "m" >>

\* C13: with the stop rule enabled, the iteration for a segment with speed
\* >= 1 km/h that closes a stopped run pushes one STOP marker at the run's
\* start point, labelled with the duration in minutes with one decimal, if the
\* closing segment's start time minus the run's start time is >= the
\* configured minimum, and no STOP marker otherwise; no other iteration pushes
\* a STOP marker.
C13_StopCloseRule ==
    [][(SegStep /\ annotConfig.stop.enabled) =>
         LET i == scan.acc.i
             new == OfType(NewMarkers, "STOP")
         IN  IF Moving(i) /\ HasOpenRun(i)
             THEN LET r == OpenRunStart(i)
                      duration == At(ScanPoints, i).time - At(ScanPoints, r).time
                  IN  IF duration >= stopMinDurationMs(annotConfig)
                      THEN /\ Len(new) = 1
                           /\ AtPoint(new[1], r)
                           /\ new[1].label = StopLabel(duration)
                      ELSE Len(new) = 0
             ELSE Len(new) = 0]_vars

C13_Witness ==
    /\ scan.running
    /\ lastCmd.kind = "scanSegment"
    /\ currentTrack = StopTrack
    /\ annotConfig.stop.enabled
    /\ \E n \in 1..Len(scan.acc.markers) :
           /\ scan.acc.markers[n].type = "STOP"
           /\ scan.acc.markers[n].lon = At(ScanPoints, 1).lon
           /\ scan.acc.markers[n].label = StopLabel(10 * 60000)

\* C14: with the stop rule enabled, the end of the scan adds to the markers of
\* the loop one STOP marker at the start point of the run that is still open,
\* if the last point's timestamp minus the run's start time is >= the
\* configured minimum, and adds nothing otherwise (no open run, a shorter run,
\* or a last point without a timestamp).
C14_StopEndFlush ==
    [][(lastCmd'.kind = "scanEnd" /\ annotConfig.stop.enabled) =>
         LET n == Len(ScanPoints)
             loop == Len(scan.acc.markers)
             new == SubSeq(annotations', loop + 1, Len(annotations'))
             last == At(ScanPoints, n - 1)
         IN  /\ Len(annotations') >= loop
             /\ SubSeq(annotations', 1, loop) = scan.acc.markers
             /\ IF /\ HasOpenRun(n - 1)
                   /\ HasTime(last)
                   /\ last.time - At(ScanPoints, OpenRunStart(n - 1)).time
                          >= stopMinDurationMs(annotConfig)
                THEN /\ Len(new) = 1
                     /\ new[1].type = "STOP"
                     /\ AtPoint(new[1], OpenRunStart(n - 1))
                     /\ new[1].label =
                            StopLabel(last.time
                                      - At(ScanPoints, OpenRunStart(n - 1)).time)
                ELSE Len(new) = 0]_vars

C14_Witness ==
    /\ ScanDone
    /\ annotConfig.stop.enabled
    /\ Len(ScanPoints) = 3
    /\ Len(annotations) = Len(scan.acc.markers) + 1
    /\ annotations[Len(annotations)].type = "STOP"
    /\ annotations[Len(annotations)].lon = At(ScanPoints, 1).lon
    /\ At(ScanPoints, 0).lon # At(ScanPoints, 1).lon

\* the cumulative distance through point k
DistanceThrough(k) == At(CumulativeDistances(ScanPoints), k)

\* C15: with the distance rule enabled, nextThreshold starts at one interval,
\* and the iteration for segment (p[i], p[i+1]) pushes one DISTANCE marker at
\* p[i+1] and adds one interval to nextThreshold if the cumulative distance
\* through p[i+1] is >= nextThreshold; otherwise it pushes no DISTANCE marker
\* and leaves nextThreshold as it was.
C15_DistanceStep ==
    [][(SegStep /\ annotConfig.distance.enabled) =>
         LET i == scan.acc.i
             new == OfType(NewMarkers, "DISTANCE")
         IN  /\ i = 0 => scan.acc.nextDistMarker = distIntervalKm(annotConfig)
             /\ IF RatGeq(DistanceThrough(i + 1), scan.acc.nextDistMarker)
                THEN /\ Len(new) = 1
                     /\ AtPoint(new[1], i + 1)
                     /\ scan'.acc.nextDistMarker =
                            RatAdd(scan.acc.nextDistMarker, distIntervalKm(annotConfig))
                ELSE /\ Len(new) = 0
                     /\ scan'.acc.nextDistMarker = scan.acc.nextDistMarker]_vars

C15_Witness ==
    /\ scan.running
    /\ lastCmd = Cmd("scanSegment", 2)
    /\ annotConfig.distance.enabled
    /\ annotConfig.distance.unit = "km"
    /\ Len(OfType(scan.acc.markers, "DISTANCE")) = 2
    /\ scan.acc.nextDistMarker = Rat(3, 1)
    /\ scan.acc.accumDist = Rat(4, 1)

\* C16: a threshold that the cumulative distance passed within an earlier
\* segment, without a marker for it, gets no DISTANCE marker later in the scan:
\* an iteration that starts with the cumulative distance already at or beyond
\* nextThreshold pushes no DISTANCE marker.
C16_NoBackFilling ==
    [][(/\ SegStep
        /\ annotConfig.distance.enabled
        /\ RatGeq(scan.acc.accumDist, scan.acc.nextDistMarker)) =>
         Len(OfType(NewMarkers, "DISTANCE")) = 0]_vars

OnlyDistanceRule == WithRule(DefaultAnnotConfig, "distance")

\* C17: on the straight 4 km track sampled every kilometre, with only the
\* distance rule enabled at 1 km, the published markers are exactly 3 DISTANCE
\* markers, at points 2, 3 and 4.
C17_ThreeMarkersAtPoints234 ==
    (ScanDone /\ currentTrack = StraightTrack /\ annotConfig = OnlyDistanceRule) =>
        /\ Len(annotations) = 3
        /\ \A n \in 1..3 :
               annotations[n].type = "DISTANCE" /\ AtPoint(annotations[n], n + 1)

\* C17, amended: on that track and configuration the published markers are
\* exactly 4 DISTANCE markers, at points 1, 2, 3 and 4.
C17_FourMarkersAtPoints1234 ==
    (ScanDone /\ currentTrack = StraightTrack /\ annotConfig = OnlyDistanceRule) =>
        /\ Len(annotations) = 4
        /\ \A n \in 1..4 :
               annotations[n].type = "DISTANCE" /\ AtPoint(annotations[n], n)

C17_Witness ==
    /\ ScanDone
    /\ currentTrack = StraightTrack
    /\ annotConfig = OnlyDistanceRule
    /\ scan.acc.i = 4
    /\ scan.acc.accumDist = Rat(4, 1)
    /\ Len(annotations) > 0

\* C18: with the distance rule 'every v units', the k-th DISTANCE marker of
\* the scan is labelled with the value k * v in the configured unit (no decimal
\* for meters, one decimal for km and miles) followed by the unit.
C18_DistanceLabelInUnit ==
    [][(SegStep /\ annotConfig.distance.enabled) =>
         LET new == OfType(NewMarkers, "DISTANCE")
             k == Len(OfType(scan'.acc.markers, "DISTANCE"))
             unit == annotConfig.distance.unit
             v == annotConfig.distance.value
         IN  \A n \in 1..Len(new) :
                 new[n].label =
                     << IF unit = "m" THEN [digits |-> 0, scaled |-> k * v]
                        ELSE [digits |-> 1, scaled |-> 10 * k * v],
                        unit >>]_vars

\* the time of the first point that carries a timestamp
FirstStamp ==
    LET stamped == { k \in 0..(Len(ScanPoints) - 1) : HasTime(At(ScanPoints, k)) }
    IN  IF stamped = {} THEN NoTime
        ELSE At(ScanPoints, CHOOSE k \in stamped : \A j \in stamped : k <= j).time

\* C19: with the time rule enabled, the iteration for a segment whose two
\* points carry a timestamp pushes one TIME marker at p[i+1] if the time elapsed
\* at p[i+1] since the first point of the track that carries a timestamp has
\* reached the next interval threshold; every other iteration pushes no TIME
\* marker (none at all on a track without timestamps).
C19_TimeSinceFirstStamp ==
    [][(SegStep /\ annotConfig.time.enabled) =>
         LET i == scan.acc.i
             new == OfType(NewMarkers, "TIME")
         IN  IF /\ HasTime(At(ScanPoints, i))
                /\ HasTime(At(ScanPoints, i + 1))
                /\ At(ScanPoints, i + 1).time - FirstStamp >= scan.acc.nextTimeMarker
             THEN Len(new) = 1 /\ AtPoint(new[1], i + 1)
             ELSE Len(new) = 0]_vars

(* -------------------- claims on the published markers ------------------ *)
\* C20: the published marker list is empty whenever the smart markers are
\* switched off, or no track is loaded, or all four rules are disabled.
C20_NoMarkersWhenOff ==
    (\/ ~showSmartMarkers
     \/ ~currentTrack.present
     \/ \A key \in RuleKeys : ~annotConfig[key].enabled) =>
        annotations = << >>

\* the markers were switched off on a track and rules that give markers
C20_Witness ==
    /\ lastCmd.kind = "markers"
    /\ ~showSmartMarkers
    /\ currentTrack.present
    /\ Len(ScanMarkers(currentTrack.points, annotConfig)) > 1
    /\ annotations = << >>

(* ---------------------- claims on the metadata memo -------------------- *)
MemoRan == lastCmd.kind # "given"
NonEmptyTrack == currentTrack.present /\ Len(currentTrack.points) > 0

\* the segment lengths added up from the last segment backwards
SegmentSum(points) ==
    LET rest[k \in 1..Len(points)] ==
            IF k = Len(points) THEN Zero
            ELSE RatAdd(getDistance(points[k], points[k + 1]), rest[k + 1])
    IN  rest[1]

\* C21: for every non-empty track the memo's cumulativeDistances has one entry
\* per point, starts with 0, never decreases, and its last entry is both the sum
\* of the segment distances and the totalDist that is returned.
C21_CumulativeDistances ==
    (MemoRan /\ NonEmptyTrack) =>
        LET cd == metadata.cumulativeDistances
        IN  /\ metadata.present
            /\ Len(cd) = Len(currentTrack.points)
            /\ cd[1] = Zero
            /\ \A k \in 1..(Len(cd) - 1) : RatLeq(cd[k], cd[k + 1])
            /\ cd[Len(cd)] = SegmentSum(currentTrack.points)
            /\ cd[Len(cd)] = metadata.totalDist

\* the memo ran on three points 1 km and 2 km apart
C21_Witness ==
    /\ lastCmd.kind = "memo"
    /\ metadata.cumulativeDistances = << Zero, Rat(1, 1), Rat(3, 1) >>
    /\ metadata.totalDist = Rat(3, 1)

\* segment k runs from point k to point k + 1 (1-based, as Sequences counts)
Segments == 1..(Len(currentTrack.points) - 1)
TimeDelta(k) == currentTrack.points[k + 1].time - currentTrack.points[k].time
Clocked(k) ==
    /\ HasTime(currentTrack.points[k])
    /\ HasTime(currentTrack.points[k + 1])
    /\ TimeDelta(k) > 0
ClockedSpeed(k) ==
    RatDiv(getDistance(currentTrack.points[k], currentTrack.points[k + 1]),
           Rat(TimeDelta(k), 3600000))
GlitchLimit == Rat(1200, 1)
AcceptedSpeeds ==
    { ClockedSpeed(k) : k \in { j \in Segments : Clocked(j) /\ RatLt(ClockedSpeed(j), GlitchLimit) } }

\* C22: maxSpeed is the largest speed below 1200 km/h among the segments whose
\* two points are timestamped a positive time apart, and 0 when there is none;
\* so it lies in [0, 1200), and a segment at 1200 km/h or more, or with a time
\* delta that is not positive, does not count.
C22_MaxSpeed ==
    (MemoRan /\ NonEmptyTrack) =>
        /\ AcceptedSpeeds = {} => metadata.maxSpeed = Zero
        /\ AcceptedSpeeds # {} =>
               /\ metadata.maxSpeed \in AcceptedSpeeds
               /\ \A s \in AcceptedSpeeds : RatLeq(s, metadata.maxSpeed)
        /\ RatLeq(Zero, metadata.maxSpeed)
        /\ RatLt(metadata.maxSpeed, GlitchLimit)

\* the memo ran on a track with a segment at exactly 1200 km/h and one at 60
C22_Witness ==
    /\ lastCmd.kind = "memo"
    /\ \E k \in Segments : Clocked(k) /\ ClockedSpeed(k) = GlitchLimit
    /\ metadata.maxSpeed = Rat(60, 1)

\* milliseconds from the first point's timestamp to the last point's, 0 when
\* either is missing
ElapsedMs ==
    IF HasTime(FirstPoint) /\ HasTime(LastPoint)
    THEN LastPoint.time - FirstPoint.time
    ELSE 0

NoStamps == \A k \in 1..Len(currentTrack.points) : ~HasTime(currentTrack.points[k])

\* the tracks that are the current one once their timestamps are taken away
StampedTwins == { t \in RenderTracks : Untimed(t) = currentTrack }

\* C24: on a track with no timestamp at all the memo still returns metadata,
\* with maxSpeed 0, avgSpeed 0 and totalTime "N/A"; the scan publishes no TIME,
\* SPEED or STOP marker under any configuration; and the cumulative distances
\* and the DISTANCE markers are those of the same track with timestamps.
C24_NoTimestamps ==
    (NonEmptyTrack /\ NoStamps) =>
        /\ lastCmd.kind = "memo" =>
               /\ metadata.present
               /\ metadata.maxSpeed = Zero
               /\ metadata.avgSpeed = Zero
               /\ metadata.totalTime = << "N/A" >>
               /\ \A t \in StampedTwins :
                      trackMetadata(t).cumulativeDistances = metadata.cumulativeDistances
        /\ lastCmd.kind = "annotations" =>
               /\ \A type \in { "TIME", "SPEED", "STOP" } :
                      OfType(annotations, type) = << >>
               /\ \A t \in StampedTwins :
                      OfType(AnnotationEffect(t, showSmartMarkers, annotConfig), "DISTANCE")
                          = OfType(annotations, "DISTANCE")

\* the scan ran with all four rules on a track without timestamps, published
\* DISTANCE markers, and the same track with timestamps gets other markers too
C24_Witness ==
    /\ lastCmd.kind = "annotations"
    /\ NonEmptyTrack /\ NoStamps
    /\ \A key \in RuleKeys : annotConfig[key].enabled
    /\ Len(annotations) >= 2
    /\ \E t \in StampedTwins :
           Len(AnnotationEffect(t, showSmartMarkers, annotConfig)) > Len(annotations)

(* -------------------- claims on position resolution -------------------- *)
PositionRan == lastCmd.kind = "position"
SeveralPoints == currentTrack.present /\ Len(currentTrack.points) >= 2
TargetDist == RatMul(simProgress, metadata.totalDist)

\* segment i (0-based) contains the target
Contains(i) ==
    /\ RatLeq(At(metadata.cumulativeDistances, i), TargetDist)
    /\ RatLeq(TargetDist, At(metadata.cumulativeDistances, i + 1))

\* the length of segment i and the fraction of it that lies before the target
LengthOf(i) ==
    RatSub(At(metadata.cumulativeDistances, i + 1), At(metadata.cumulativeDistances, i))
FractionIn(i) ==
    IF RatGt(LengthOf(i), Zero)
    THEN RatDiv(RatSub(TargetDist, At(metadata.cumulativeDistances, i)), LengthOf(i))
    ELSE Zero
Between(a, b, fraction) == RatAdd(Rat(a, 1), RatMul(Rat(b - a, 1), fraction))

\* C25: for every progress in [0,1] on a track of two or more points the
\* published index is the smallest i with cumulativeDistances[i] <= progress *
\* totalDist <= cumulativeDistances[i+1]; the fraction of that segment lies in
\* [0,1] (0 for a segment of length 0); and lat/lon are the linear
\* interpolation of points i and i+1 by that fraction.
C25_FirstSegmentInterpolated ==
    (PositionRan /\ SeveralPoints) =>
        LET i == simulationStatus.lastIndex
            p1 == At(currentTrack.points, i)
            p2 == At(currentTrack.points, i + 1)
        IN  /\ simulationStatus.present
            /\ i \in 0..(Len(currentTrack.points) - 2)
            /\ Contains(i)
            /\ \A j \in 0..(i - 1) : ~Contains(j)
            /\ RatLeq(Zero, FractionIn(i)) /\ RatLeq(FractionIn(i), One)
            /\ LengthOf(i) = Zero => FractionIn(i) = Zero
            /\ simulationStatus.lat = Between(p1.lat, p2.lat, FractionIn(i))
            /\ simulationStatus.lon = Between(p1.lon, p2.lon, FractionIn(i))

\* half way along a track of 1 km and 2 km: a quarter into the second segment
C25_Witness ==
    /\ PositionRan
    /\ simProgress = Rat(1, 2)
    /\ metadata.cumulativeDistances = << Zero, Rat(1, 1), Rat(3, 1) >>
    /\ simulationStatus.lastIndex = 1
    /\ simulationStatus.lon = Rat(3, 2)

(* ------------------------ claims on the bearing ------------------------ *)
\* what the position effect publishes for another progress on the same render
StatusAt(progress) == SimulationStatusOf(progress, metadata, currentTrack)

\* C26: the bearing is piecewise-constant: two progress values that resolve to
\* the same segment index give the same bearing, and on a track of two or more
\* points it is the bearing from the segment's start point to its end point,
\* whatever the interpolated position.
C26_BearingPerSegment ==
    (PositionRan /\ simulationStatus.present) =>
        /\ \A q \in RenderProgress :
               StatusAt(q).lastIndex = simulationStatus.lastIndex
                   => StatusAt(q).bearing = simulationStatus.bearing
        /\ SeveralPoints =>
               LET p1 == At(currentTrack.points, simulationStatus.lastIndex)
                   p2 == At(currentTrack.points, simulationStatus.lastIndex + 1)
               IN  simulationStatus.bearing =
                       calculateBearing(p1.lat, p1.lon, p2.lat, p2.lon)

\* two positions inside one eastward segment, one of them its end point
C26_Witness ==
    /\ PositionRan /\ SeveralPoints
    /\ simulationStatus.bearing = 90
    /\ FractionIn(simulationStatus.lastIndex) = One
    /\ \E q \in RenderProgress :
           /\ StatusAt(q).lastIndex = simulationStatus.lastIndex
           /\ StatusAt(q).lon # simulationStatus.lon

(* -------------------- claims on the simulated time --------------------- *)
\* C27: on a track of two or more points the published time is the linear
\* interpolation of the timestamps of the two end points of the resolved segment
\* by the fraction used for the position when both carry a timestamp, and null
\* when either of them lacks one.
C27_TimeInterpolated ==
    (PositionRan /\ SeveralPoints) =>
        LET i == simulationStatus.lastIndex
            p1 == At(currentTrack.points, i)
            p2 == At(currentTrack.points, i + 1)
        IN  simulationStatus.time =
                IF HasTime(p1) /\ HasTime(p2)
                THEN Between(p1.time, p2.time, FractionIn(i))
                ELSE Rat(NoTime, 1)

\* a position strictly inside a segment whose end points are a minute apart
C27_Witness ==
    /\ PositionRan /\ SeveralPoints
    /\ LET i == simulationStatus.lastIndex
           p1 == At(currentTrack.points, i)
           p2 == At(currentTrack.points, i + 1)
       IN  /\ HasTime(p1) /\ HasTime(p2)
           /\ p2.time = p1.time + 60000
           /\ RatLt(Zero, FractionIn(i)) /\ RatLt(FractionIn(i), One)
           /\ RatLt(Rat(p1.time, 1), simulationStatus.time)
           /\ RatLt(simulationStatus.time, Rat(p2.time, 1))

(* ---------------------- claims on the null results --------------------- *)
HasPoints == currentTrack.present /\ Len(currentTrack.points) >= 1

\* C28: without a track, or with a track of zero points, the memo's value is
\* null and the position effect publishes null; with a track of one point or
\* more both are non-null.
C28_NullWithoutPoints ==
    /\ MemoRan => (metadata.present <=> HasPoints)
    /\ PositionRan => (simulationStatus.present <=> HasPoints)

\* a loaded track of zero points: no metadata, and null published
C28_Witness ==
    /\ PositionRan
    /\ currentTrack.present /\ Len(currentTrack.points) = 0
    /\ ~metadata.present
    /\ ~simulationStatus.present

(* ------------------- claims on repeated computation -------------------- *)
\* what one run of the two computations gives for the inputs of this state
OutputsOfInputs ==
    /\ annotations = AnnotationEffect(currentTrack, showSmartMarkers, annotConfig)
    /\ metadata = trackMetadata(currentTrack)

\* a command writes its own input and the render after it writes none
InputsKept ==
    /\ lastCmd'.kind # "load" => currentTrack' = currentTrack
    /\ lastCmd'.kind \in { "load", "markers" } => annotConfig' = annotConfig
    /\ lastCmd'.kind = "rule" =>
           \E key \in RuleKeys : annotConfig' = [annotConfig EXCEPT ![key].enabled = ~@]

\* a render on unchanged inputs publishes what the render before it published
SameInputsSameOutputs ==
    << currentTrack', showSmartMarkers', annotConfig' >>
            = << currentTrack, showSmartMarkers, annotConfig >>
        => << annotations', metadata' >> = << annotations, metadata >>

\* C29: the annotation scan and the metadata memo are functions of the track
\* and the configuration alone: whatever ran before, the markers published and
\* the statistics are those of one run on the current track and configuration
\* (so two runs on the same inputs agree, marker by marker and label by
\* label), and a run writes neither the track nor the configuration.
C29_Idempotent ==
    /\ []OutputsOfInputs
    /\ [][InputsKept /\ SameInputsSameOutputs]_vars

\* the markers switched off and on again: the scan has run once more on a
\* track and a configuration that give markers
C29_Witness ==
    /\ lastCmd.kind = "markers"
    /\ showSmartMarkers
    /\ Len(annotations) >= 2
    /\ metadata.present

(* ------------------------ claims on getDistance ------------------------ *)
\* C30: the distance from a point to itself is 0, and the distance between two
\* points is the same in both directions; checked on every point and every
\* pair of points of the track the memo has measured.
C30_DistanceZeroAndSymmetric ==
    (MemoRan /\ currentTrack.present) =>
        \A j, k \in 1..Len(currentTrack.points) :
            /\ getDistance(currentTrack.points[j], currentTrack.points[j]) = Zero
            /\ getDistance(currentTrack.points[j], currentTrack.points[k])
                   = getDistance(currentTrack.points[k], currentTrack.points[j])

\* two points 2 km apart, measured forwards by the memo and backwards here
C30_Witness ==
    /\ MemoRan /\ SeveralPoints
    /\ At(metadata.cumulativeDistances, 1) = Rat(2, 1)
    /\ getDistance(At(currentTrack.points, 1), At(currentTrack.points, 0)) = Rat(2, 1)

(* --------------------- claims on calculateBearing ---------------------- *)
\* C31: the bearing is a defined value in [0, 360) for every pair of points,
\* and is 0 when the two points are at the same place; checked on every
\* ordered pair of points of the track, and on the bearing the position effect
\* published.
C31_BearingInRange ==
    (PositionRan /\ simulationStatus.present) =>
        /\ simulationStatus.bearing \in 0..359
        /\ \A j, k \in 1..Len(currentTrack.points) :
               LET a == currentTrack.points[j]
                   b == currentTrack.points[k]
               IN  /\ calculateBearing(a.lat, a.lon, b.lat, b.lon) \in 0..359
                   /\ (a.lat = b.lat /\ a.lon = b.lon) =>
                          calculateBearing(a.lat, a.lon, b.lat, b.lon) = 0

\* a position on a segment between two points at the same place, on a track
\* that also moves: bearing 0 published, and 270 for the way back
C31_Witness ==
    /\ PositionRan /\ SeveralPoints
    /\ LengthOf(simulationStatus.lastIndex) = Zero
    /\ simulationStatus.bearing = 0
    /\ \E j, k \in 1..Len(currentTrack.points) :
           calculateBearing(0, currentTrack.points[j].lon,
                            0, currentTrack.points[k].lon) = 270

(* ------------------- claims on the four detectors ---------------------- *)
AnnotationsRan == lastCmd.kind = "annotations"

\* the rule block that configures the markers of a kind
KindOfRule(key) ==
    IF key = "time" THEN "TIME"
    ELSE IF key = "distance" THEN "DISTANCE"
    ELSE IF key = "stop" THEN "STOP"
    ELSE "SPEED"

AllRules ==
    WithRule(WithRule(WithRule(WithRule(DefaultAnnotConfig, "time"),
                               "distance"), "stop"), "speed")

\* C32: for a fixed track the markers of one kind depend on the rule block of
\* that kind only: every configuration with the same block gives the same
\* markers of that kind, in the same order and with the same labels, whatever
\* its other three blocks are.
C32_DetectorsIndependent ==
    AnnotationsRan =>
        \A cfg \in ScanConfigs \ {annotConfig} :
            \A key \in RuleKeys :
                cfg[key] = annotConfig[key] =>
                    OfType(annotations, KindOfRule(key))
                        = OfType(AnnotationEffect(currentTrack, showSmartMarkers, cfg),
                                 KindOfRule(key))

\* all four rules enabled on a track that gives a marker of every kind
C32_Witness ==
    /\ AnnotationsRan
    /\ annotConfig = AllRules
    /\ \A key \in RuleKeys : Len(OfType(annotations, KindOfRule(key))) >= 1

(* ---------------- claims on an untimed first point --------------------- *)
FirstPointUntimed ==
    /\ currentTrack.present
    /\ Len(currentTrack.points) >= 1
    /\ ~HasTime(At(currentTrack.points, 0))

\* C33: when the first point of the track carries no timestamp the scan emits
\* no TIME, SPEED or STOP marker, under every configuration and also when
\* every later point carries a timestamp.
C33_NoTimedMarkersWithoutFirstTime ==
    (AnnotationsRan /\ FirstPointUntimed) =>
        \A k \in 1..Len(annotations) : annotations[k].type = "DISTANCE"

\* all rules enabled; an untimed start, ten minutes standing, then 2 km in a
\* minute, both with timestamps: distance markers only
C33_Witness ==
    /\ AnnotationsRan /\ FirstPointUntimed
    /\ annotConfig = AllRules
    /\ metadata.cumulativeDistances = << Zero, Zero, Rat(2, 1) >>
    /\ HasTime(At(currentTrack.points, 1)) /\ HasTime(At(currentTrack.points, 2))
    /\ At(currentTrack.points, 2).time = At(currentTrack.points, 1).time + 60000
    /\ Len(annotations) >= 1

(* -------------- claims on segments without elapsed time ---------------- *)
\* the iteration of this step scans a segment that passes the gate and whose
\* second timestamp is not after its first
ScansUnclockedSegment ==
    /\ lastCmd'.kind = "scanSegment"
    /\ HasTime(At(currentTrack.points, scan.acc.i))
    /\ HasTime(At(currentTrack.points, scan.acc.i + 1))
    /\ Truthy(scan.acc.firstTime)
    /\ At(currentTrack.points, scan.acc.i + 1).time
           <= At(currentTrack.points, scan.acc.i).time

\* what the stop detector does on a segment slower than 1 km/h: no marker, and
\* a run that is open stays as it is, else one opens at the start of the segment
StoppedHere ==
    /\ OfType(scan'.acc.markers, "STOP") = OfType(scan.acc.markers, "STOP")
    /\ IF Truthy(scan.acc.stopStartTime)
       THEN /\ scan'.acc.stopStartTime = scan.acc.stopStartTime
            /\ scan'.acc.stopStartPoint = scan.acc.stopStartPoint
       ELSE /\ scan'.acc.stopStartTime = At(currentTrack.points, scan.acc.i).time
            /\ scan'.acc.stopStartPoint = At(currentTrack.points, scan.acc.i)

\* C34: a timestamped segment whose time difference is zero or negative has
\* speed 0: under a speed limit of 0 or more the iteration adds no SPEED
\* marker, and with the stop rule enabled it opens or extends a stopped run as
\* a segment slower than 1 km/h does, whatever distance the segment covers.
C34_NoElapsedTimeIsStandstill ==
    [][ScansUnclockedSegment =>
           /\ annotConfig.speed.limit >= 0 =>
                  OfType(scan'.acc.markers, "SPEED") = OfType(scan.acc.markers, "SPEED")
           /\ annotConfig.stop.enabled => StoppedHere]_vars

\* a kilometre covered while the clock stepped back: with the stop and speed
\* rules enabled a stopped run has opened at the start of that segment
C34_Witness ==
    /\ lastCmd.kind = "scanSegment"
    /\ annotConfig = AllRules
    /\ LET p1 == At(currentTrack.points, lastCmd.arg)
           p2 == At(currentTrack.points, lastCmd.arg + 1)
       IN  /\ HasTime(p1) /\ HasTime(p2)
           /\ p2.time < p1.time
           /\ getDistance(p1, p2) = One
           /\ scan.acc.stopStartTime = p1.time
           /\ scan.acc.stopStartPoint = p1
           /\ OfType(scan.acc.markers, "SPEED") = << >>

(* ------------------ claims on the DISTANCE markers --------------------- *)
\* k intervals of the distance rule, in km
Threshold(k) == RatMul(Rat(k, 1), distIntervalKm(annotConfig))

\* the DISTANCE markers pushed so far: the k-th carries the threshold of k
\* intervals, and there are no more of them than segments scanned and than
\* whole intervals in the distance covered
DistanceMarkersSoFar ==
    LET ms == OfType(scan.acc.markers, "DISTANCE")
    IN  /\ \A k \in 1..Len(ms) : ms[k].label = DistanceLabel(annotConfig, Threshold(k))
        /\ Len(ms) <= scan.acc.i
        /\ RatLeq(Threshold(Len(ms)), scan.acc.accumDist)
        /\ ScanDone =>
               /\ OfType(annotations, "DISTANCE") = ms
               /\ Len(ms) <= Len(ScanPoints) - 1
               /\ RatLeq(Threshold(Len(ms)), metadata.totalDist)

\* an iteration pushes one DISTANCE marker at most, after the earlier ones: the
\* next in number, at the end point of its segment, where the cumulative
\* distance has reached the threshold it carries
DistanceMarkerPushed ==
    SegStep =>
        LET before == OfType(scan.acc.markers, "DISTANCE")
            after == OfType(scan'.acc.markers, "DISTANCE")
            new == OfType(NewMarkers, "DISTANCE")
        IN  /\ after = before \o new
            /\ Len(new) <= 1
            /\ Len(new) = 1 =>
                   /\ AtPoint(new[1], scan.acc.i + 1)
                   /\ new[1].label = DistanceLabel(annotConfig, Threshold(Len(before) + 1))
                   /\ RatGeq(DistanceThrough(scan.acc.i + 1), Threshold(Len(before) + 1))

PositiveInterval == RatGt(distIntervalKm(annotConfig), Zero)
WellFormedSoFar == PositiveInterval => DistanceMarkersSoFar
WellFormedPush == PositiveInterval => DistanceMarkerPushed

\* C35: for a positive interval the k-th DISTANCE marker carries the threshold
\* k * interval, the cumulative distance at its anchor point is at least
\* k * interval, the anchors are at strictly increasing point indices (one
\* marker at most per iteration, at the end point of the iteration's segment),
\* and the number of DISTANCE markers is at most min(N - 1, floor(totalDistance
\* / interval)).
C35_DistanceMarkersWellFormed ==
    /\ []WellFormedSoFar
    /\ [][WellFormedPush]_vars

\* 2 km over three segments, the second one standing, at an interval of 1 km:
\* two markers, as many as whole intervals and fewer than segments
C35_Witness ==
    /\ ScanDone
    /\ annotConfig = OnlyDistanceRule
    /\ Len(ScanPoints) = 4
    /\ metadata.cumulativeDistances = << Zero, One, One, Rat(2, 1) >>
    /\ Len(OfType(annotations, "DISTANCE")) = 2
    /\ AtPoint(annotations[1], 1) /\ AtPoint(annotations[2], 3)

(* -------------------- claims on lastPassedIndex ------------------------ *)
\* the index the position effect publishes for another progress, on this track
IndexAt(progress) == SimulationStatusOf(progress, metadata, currentTrack).lastIndex

\* the published index is one of the track's, and no progress before the
\* current one resolves to a later index, nor one after it to an earlier index
IndexMonotone ==
    simulationStatus.present =>
        /\ simulationStatus.lastIndex \in 0..(Len(currentTrack.points) - 1)
        /\ \A k \in ScrubSteps :
               /\ RatLeq(Rat(k, 1000), simProgress) =>
                      IndexAt(Rat(k, 1000)) <= simulationStatus.lastIndex
               /\ RatLeq(simProgress, Rat(k, 1000)) =>
                      simulationStatus.lastIndex <= IndexAt(Rat(k, 1000))

\* a tick does not lower the published index
IndexKeptByTick ==
    (TickStep /\ simulationStatus.present) =>
        /\ simulationStatus'.present
        /\ simulationStatus'.lastIndex >= simulationStatus.lastIndex

\* C36: lastPassedIndex is monotone in progress: of two progress values on the
\* same track the smaller never resolves to the later index; so during
\* uninterrupted playback the published index never decreases from one tick to
\* the next, and it always lies in 0..N-1.
C36_IndexMonotone ==
    /\ []IndexMonotone
    /\ [][IndexKeptByTick]_vars

\* playing, three quarters along a track of two segments: the second segment
C36_Witness ==
    /\ lastCmd.kind = "tick"
    /\ isSimulating
    /\ simProgress = Rat(3, 4)
    /\ Len(currentTrack.points) = 3
    /\ simulationStatus.lastIndex = 1

(* ------------------- claims on playback at the end --------------------- *)
\* from progress 1 a tick keeps progress at 1 and leaves the player idle, and
\* progress changes with a reset, a scrub or a successful load only
StaysAtEnd ==
    simProgress = One =>
        /\ TickStep => (simProgress' = One /\ ~isSimulating')
        /\ lastCmd'.kind = "start" => (simProgress' = One /\ isSimulating')
        /\ simProgress' # One => lastCmd'.kind \in { "reset", "scrub", "load" }

\* C37: starting playback at progress 1 does not rewind: the start leaves
\* progress at 1, the next tick leaves it at 1 and returns the player to idle,
\* and progress leaves 1 only through a reset, a manual scrub or a successful
\* track load.
C37_NoRewindAtEnd ==
    [][StaysAtEnd]_vars

\* a tick that moved nothing ended at progress 1 on a track with a length: it
\* began at progress 1, in a playback started there, and stopped the player
C37_Witness ==
    /\ lastCmd = Cmd("tick", 0)
    /\ simProgress = One
    /\ ~isSimulating
    /\ ~frame.pending
    /\ RatGt(TotalDist, Zero)

(* ------------------- claims on the playback speed ---------------------- *)
\* a speed command writes the speed and nothing else of the player
SpeedCommandFrame ==
    lastCmd'.kind = "speed" =>
        /\ simSpeed' = lastCmd'.arg
        /\ simProgress' = simProgress
        /\ isSimulating' = isSimulating
        /\ currentTrack' = currentTrack
        /\ frame'.pending = frame.pending

\* a tick moves by the distance of the current speed
TickAtCurrentSpeed ==
    TickStep =>
        simProgress' = animate(simProgress, TotalDist,
                               distMoved(simSpeed, lastCmd'.arg)).progress

\* the frame that is pending moves by the current speed
PendingFrameAtCurrentSpeed == frame.pending => frame.simSpeed = simSpeed

\* C38: a speed command changes the playback speed only: idle or playing, it
\* leaves progress and the playing flag as they were, and the ticks after it
\* advance progress by the new speed.
C38_SpeedOnly ==
    /\ []PendingFrameAtCurrentSpeed
    /\ [][SpeedCommandFrame /\ TickAtCurrentSpeed]_vars

\* the speed set to 200 km/h while playing, part of the way along the track
C38_Witness ==
    /\ lastCmd = Cmd("speed", 200)
    /\ isSimulating
    /\ frame.pending /\ frame.simSpeed = 200
    /\ RatLt(Zero, simProgress) /\ RatLt(simProgress, One)

(* ------------------------ claims on track loads ------------------------ *)
\* a successful load: the parsed track is the track, nothing shown comes from
\* the track before it, and the player is idle at progress 0
LoadSucceeded ==
    lastCmd'.kind = "load" =>
        /\ currentTrack' \in AnnotTracks
        /\ metadata' = trackMetadata(currentTrack')
        /\ annotations' = AnnotationEffect(currentTrack', showSmartMarkers', annotConfig')
        /\ simulationStatus' = SimulationStatusOf(Zero, metadata', currentTrack')
        /\ simProgress' = Zero
        /\ ~isSimulating'
        /\ ~frame'.pending

\* a failed load: the error is recorded and the rest is as it was
LoadFailed ==
    lastCmd'.kind = "loadFail" =>
        /\ error' = ParseError
        /\ currentTrack' = currentTrack
        /\ simProgress' = simProgress
        /\ isSimulating' = isSimulating
        /\ annotations' = annotations
        /\ frame' = frame

\* C39: a successful load replaces the track as a whole and leaves the player
\* idle at progress 0, also when it was playing; a failed load records an
\* error and leaves the track, progress, the playing flag and the published
\* markers unchanged.
C39_LoadOutcome ==
    [][LoadSucceeded /\ LoadFailed]_vars

\* a load failed during playback, part of the way along a track with markers
\* on show: still playing there, with the markers
C39_Witness ==
    /\ lastCmd.kind = "loadFail"
    /\ error = ParseError
    /\ isSimulating /\ frame.pending
    /\ RatLt(Zero, simProgress) /\ RatLt(simProgress, One)
    /\ Len(annotations) >= 1

====
